---------------------------- MODULE Spec2Model ----------------------------
(***************************************************************************)
(* Verification model of looper's orchestration drivers (looper/looper.py) *)
(* and of the project's pipeline-interface maps (looper/project.py).       *)
(*                                                                         *)
(* The program is main(): one command (clean, destroy, run) is chosen by   *)
(* args.command and its driver object is called.  The submission conductor *)
(* (looper/conductor.py) is used by the Run driver through add_sample and  *)
(* submit; its behaviour is taken from the design specification, section   *)
(* 4.2.                                                                    *)
(***************************************************************************)
EXTENDS Integers, Sequences, FiniteSets, TLC

\* ------------------------------------------------------------------ bounds

NumSamples == 2

\* dispatches that may fail in one run
MaxDispatchFailures == 1

\* conductor operations a caller makes in ConductorSpec
MaxOps == 4

Samples == 1 .. NumSamples

\* Pipeline interface sources a sample may name; "bad" does not load.
Sources == {"p1", "p2", "bad"}
ValidSources == {"p1", "p2"}

\* An optional integer (None or a number) is the empty set or a singleton.
None == {}
Some(n) == {n}
IsNone(x) == x = {}
Val(x) == CHOOSE v \in x : TRUE

VARIABLES
    command,        \* args.command
    args,           \* the parsed options: dry_run, force_yes, limit, lumpn, lump, ignore_flags
    pc,             \* position of the driver
    ret,            \* what the driver call returned or raised ("none" while running)
    \* ---- filesystem and terminal
    fs,             \* the filesystem entries that exist
    fs0,            \* the entries that existed when the driver was invoked
    scripts_run,    \* cleanup scripts executed by subprocess.call, in order
    asked,          \* number of query_yes_no prompts shown
    answer,         \* the user's answer to the prompt ("none" until asked)
    \* ---- Cleaner / Destroyer call frame
    preview_flag,   \* the preview_flag argument of the running pass
    idx,            \* loop position in prj.samples (Clean, Destroy, Run)
    passes,         \* the preview_flag of every pass started, in order
    counter,        \* LooperCounter: [count, total]
    \* ---- project
    piface_attr,    \* sample -> the pipeline interface sources its attribute lists
    input_size,     \* sample -> size of its input files
    samples_by_interface,   \* Project._samples_by_interface
    interfaces_by_sample,   \* Project._interfaces_by_sample
    \* ---- Runner call frame
    conductors,     \* submission_conductors: pipe_iface_file -> conductor
    conductor_keys, \* the keys of submission_conductors in insertion order
    failures,       \* failures: sample name -> list of reasons
    processed_samples,
    pl_fails,       \* pl_fails of the sample being processed
    jdx,            \* position in sample_pifaces (0: the sample is not yet begun)
    kdx,            \* position in submission_conductors.items()
    upper_sample_bound,
    num_commands_possible,
    failed_submission_scripts,
    job_sub_total,
    cmd_sub_total,
    report,         \* what the end-of-run summary logged (<<>> until then)
    \* ---- what happened, in order
    jobs,           \* job scripts written by the conductors, with their dispatch outcome
    calls,          \* add_sample calls made: [sample, piface, flags]
    skipped,        \* (sample, piface) pairs whose add_sample reasons went to pl_fails
    submits,        \* submit calls made on the conductors: [piface, force, ncalls, held]
    invalid,        \* samples whose validate_sample failed
    counter_log,    \* the LooperCounter calls made: [op, text]
    \* ---- status flags (html_reports)
    sample_dir,     \* a sample directory: [exists, files], files as <<pipeline, flag>>
    existing_flags, \* what _get_flags returned
    flag,           \* the status create_status_table put in the sample's row
    \* ---- compute settings (--compute, --settings, the active compute package)
    compute,        \* args.compute: the itemized specification, a list of tokens
    settings,       \* the --settings file: [present, valid, data]
    dcc,            \* prj.dcc[COMPUTE_KEY]: the active compute package's variables
    compute_kwargs, \* what _proc_resources_spec returned
    comp_vars,      \* the compute_variables the conductors are built with
    error,          \* the message of the exception raised (NoMessage while none)
    \* ---- Collator
    cfg_pifaces,    \* the project config's pipeline_interfaces list (None: no such key)
    piface_lines,   \* Collator.__call__'s project_pifaces
    jobs_submitted, \* Collator.__call__'s jobs
    collate_flushes, \* whether submit() of a collate=True conductor flushes unforced
    \* ---- Checker
    marker_files,   \* flag -> number of marker files of the flag in the sample folders
    check_flags,    \* Checker.__call__'s flags, sorted
    files_by_flag,  \* what fetch_flag_files returned
    check_log,      \* what Checker.__call__ logged at INFO level, in order
    \* ---- HTTP API (api/main.py)
    api_jobs,       \* the module's jobs dict: job id -> the Job object stored (its number)
    job_heap,       \* the Job objects created, in order: [id, status, console_output]
    tasks,          \* the background tasks added, in order: [job_id, pc]
    last_get        \* what the last GET /status/{job_id} answered

cdvars == <<fs, fs0, scripts_run, asked, answer, preview_flag, passes>>
projvars == <<piface_attr, input_size, samples_by_interface, interfaces_by_sample>>
runvars == <<conductors, conductor_keys, failures, processed_samples, pl_fails, jdx, kdx,
             upper_sample_bound, num_commands_possible, failed_submission_scripts,
             job_sub_total, cmd_sub_total, report>>
histvars == <<jobs, calls, skipped, submits, invalid>>
flagvars == <<sample_dir, existing_flags, flag>>
compvars == <<compute, settings, dcc, compute_kwargs, comp_vars, error>>
collvars == <<cfg_pifaces, piface_lines, jobs_submitted, collate_flushes>>
checkvars == <<marker_files, check_flags, files_by_flag, check_log>>
apivars == <<api_jobs, job_heap, tasks, last_get>>
extvars == <<compvars, collvars, checkvars, apivars>>

\* ------------------------------------------------------ filesystem entries

\* get_file_for_project(prj, name): a path of the project's output directory
FileForProject(name) == <<name, 0>>

\* the paths destroy_summary hands to _remove_or_dry_run
SummaryPaths == <<FileForProject("summary.html"), FileForProject("stats_summary.tsv"),
                  FileForProject("objs_summary.tsv"), FileForProject("reports")>>

\* sample_folder(prj, sample) and the *_cleanup.sh file pypiper leaves in it
Folder(s) == <<"folder", s>>
CleanupScript(s) == <<"cleanup", s>>

\* what lives below a path: rmtree of a sample folder takes its cleanup script
Below(path) ==
    IF path \in {Folder(s) : s \in Samples}
    THEN {path, CleanupScript(path[2])}
    ELSE {path}

\* glob.glob(os.path.join(sample_output_folder, "*_cleanup.sh"))
CleanupFiles(s, files) ==
    IF CleanupScript(s) \in files THEN <<CleanupScript(s)>> ELSE <<>>

RECURSIVE RemoveOrDryRunMutIgnoresDryRun(_, _, _)
RemoveOrDryRunMutIgnoresDryRun(paths, dry_run, files) ==
    IF paths = <<>> THEN files
    ELSE LET path == Head(paths)
             rest == Tail(paths)
         IN  IF path \in files
             THEN RemoveOrDryRunMutIgnoresDryRun(rest, dry_run, files \ Below(path))
             ELSE RemoveOrDryRunMutIgnoresDryRun(rest, dry_run, files)

\* _remove_or_dry_run(paths, dry_run): the filesystem after the call
RECURSIVE RemoveOrDryRun(_, _, _)
RemoveOrDryRun(paths, dry_run, files) ==
    IF paths = <<>> THEN files
    ELSE LET path == Head(paths)
             rest == Tail(paths)
         IN  IF path \in files
             THEN IF dry_run
                  THEN RemoveOrDryRun(rest, dry_run, files)
                  ELSE RemoveOrDryRun(rest, dry_run, files \ Below(path))
             ELSE RemoveOrDryRun(rest, dry_run, files)

\* destroy_summary that removes nothing
DestroySummaryFsMutKeeps(dry_run, files) == files

\* destroy_summary(prj, dry_run)
DestroySummaryFs(dry_run, files) == RemoveOrDryRun(SummaryPaths, dry_run, files)

\* ---------------------------------------------------------- LooperCounter

\* show that leaves the count as it is
ShowMutKeepsCount(c) == c

\* LooperCounter.show: the count goes up by one
Show(c) == [c EXCEPT !.count = c.count + 1]
\* reset that leaves the count as it is
ResetMutKeepsCount(c) == c

\* LooperCounter.reset
Reset(c) == [c EXCEPT !.count = 0]

\* _submission_status_text(curr, total, ...): the "[n of t]" of the line
SubmissionStatusText(curr, total) == <<curr, total>>

\* a show call as the log keeps it: the text show returned, built from the
\* counter after the increment
ShowCall(c) ==
    [op |-> "show", text |-> SubmissionStatusText(c.count, c.total)]

\* a reset call as the log keeps it
ResetCall(c) == [op |-> "reset", text |-> <<>>]

\* ---------------------------------------------------------------- Project

Range(seq) == {seq[k] : k \in 1 .. Len(seq)}

\* f with key k bound to v (a dict assignment)
Put(f, k, v) == [x \in DOMAIN f \cup {k} |-> IF x = k THEN v ELSE f[x]]

\* the elements of seq in order, each at its first occurrence only (the key
\* order of a dict filled in that order)
RECURSIVE KeyOrder(_)
KeyOrder(seq) ==
    IF seq = <<>> THEN <<>>
    ELSE LET init == SubSeq(seq, 1, Len(seq) - 1)
             last == seq[Len(seq)]
         IN  IF last \in Range(init) THEN KeyOrder(init)
             ELSE Append(KeyOrder(init), last)

\* f[1] \o ... \o f[n]
RECURSIVE Flatten(_, _)
Flatten(f, n) == IF n = 0 THEN <<>> ELSE Flatten(f, n - 1) \o f[n]

\* the elements of a set of samples as a list, in ascending order
RECURSIVE SetToSeq(_)
SetToSeq(S) ==
    IF S = {} THEN <<>>
    ELSE LET m == CHOOSE x \in S : \A y \in S : x <= y
         IN  <<m>> \o SetToSeq(S \ {m})

\* a PipelineInterface(source) that loads whatever the source is
LoadsMutEverySource(src) == TRUE

\* PipelineInterface(source) loads
Loads(src) == src \in ValidSources

\* Project._samples_by_piface, run by Project.__init__: source -> set of the
\* names of the samples that list it, for the sources that load
SamplesByInterface ==
    [src \in {x \in Sources : Loads(x) /\ \E s \in Samples : x \in Range(piface_attr[s])}
        |-> {s \in Samples : src \in Range(piface_attr[s])}]

\* the key order of _samples_by_interface: samples in project order, each
\* sample's sources in the order listed
SourceOrder ==
    KeyOrder(SelectSeq(Flatten(piface_attr, NumSamples), Loads))

\* Project._piface_by_samples with every listed occurrence of a source kept
InterfacesBySampleMutKeepsRepeats ==
    [s \in {x \in Samples : SelectSeq(piface_attr[x], Loads) # <<>>}
        |-> SelectSeq(piface_attr[s], Loads)]

\* Project._piface_by_samples, run by Project.__init__: sample name -> list
\* of pipeline interfaces
InterfacesBySample ==
    [s \in UNION {SamplesByInterface[src] : src \in DOMAIN SamplesByInterface}
        |-> SelectSeq(SourceOrder, LAMBDA src : s \in SamplesByInterface[src])]

\* the key order of _interfaces_by_sample: by source, then by sample name
SampleOrder ==
    KeyOrder(Flatten([k \in 1 .. Len(SourceOrder) |->
                         SetToSeq(samples_by_interface[SourceOrder[k]])],
                     Len(SourceOrder)))

\* Project.pipeline_interfaces: flat list over _interfaces_by_sample.values()
PipelineInterfaces ==
    LET order == SampleOrder
    IN  Flatten([k \in 1 .. Len(order) |->
                    IF order[k] \in DOMAIN interfaces_by_sample
                    THEN interfaces_by_sample[order[k]] ELSE <<>>],
                Len(order))

\* Project.get_sample_piface: the sample's interfaces, None (here <<>>) on KeyError
GetSamplePiface(s) ==
    IF s \in DOMAIN interfaces_by_sample THEN interfaces_by_sample[s] ELSE <<>>

\* ------------------------------------------------------ SubmissionConductor

\* the reason add_sample returns for a sample that a flag blocks
FlagReason == "Pipeline flag found"

\* the flag sets a status read of a sample directory may find
FlagChoices == {{}, {"completed"}}

\* the batch is full: a configured threshold is reached
IsFull(c) ==
    \/ ~IsNone(c.max_cmds) /\ Len(c.pool) >= Val(c.max_cmds)
    \/ ~IsNone(c.max_size) /\ c.curr_size >= Val(c.max_size)

ResetPool(c) == [c EXCEPT !.pool = <<>>, !.curr_size = 0]

NoSubmission(c) == [cnd |-> c, raised |-> FALSE, scripts |-> <<>>]

\* submit that keeps the batch of a failed dispatch
SubmitMutKeepsFailedPool(c, force, dispatch_ok) ==
    IF c.pool = <<>> THEN NoSubmission(c)
    ELSE IF force \/ IsFull(c)
    THEN IF c.dry_run \/ dispatch_ok
         THEN [cnd |-> ResetPool([c EXCEPT
                          !.num_job_submissions = @ + 1,
                          !.num_cmd_submissions = @ + Len(c.pool)]),
               raised |-> FALSE,
               scripts |-> <<[cmds |-> c.pool,
                             status |-> IF c.dry_run THEN "dry" ELSE "submitted"]>>]
         ELSE [cnd |-> [c EXCEPT !.failed_samples = @ \cup Range(c.pool)],
               raised |-> TRUE,
               scripts |-> <<[cmds |-> c.pool, status |-> "failed"]>>]
    ELSE NoSubmission(c)

\* submit that counts one command for a flushed batch, whatever it holds
SubmitMutCountsOneCmd(c, force, dispatch_ok) ==
    IF c.pool = <<>> THEN NoSubmission(c)
    ELSE IF force \/ IsFull(c)
    THEN IF c.dry_run \/ dispatch_ok
         THEN [cnd |-> ResetPool([c EXCEPT
                          !.num_job_submissions = @ + 1,
                          !.num_cmd_submissions = @ + 1]),
               raised |-> FALSE,
               scripts |-> <<[cmds |-> c.pool,
                             status |-> IF c.dry_run THEN "dry" ELSE "submitted"]>>]
         ELSE [cnd |-> ResetPool([c EXCEPT !.failed_samples = @ \cup Range(c.pool)]),
               raised |-> TRUE,
               scripts |-> <<[cmds |-> c.pool, status |-> "failed"]>>]
    ELSE NoSubmission(c)

\* submit that counts a job for a forced flush of an empty batch
SubmitMutCountsEmptyFlush(c, force, dispatch_ok) ==
    IF c.pool = <<>>
    THEN IF force
         THEN [cnd |-> [c EXCEPT !.num_job_submissions = @ + 1],
               raised |-> FALSE, scripts |-> <<>>]
         ELSE NoSubmission(c)
    ELSE IF force \/ IsFull(c)
    THEN IF c.dry_run \/ dispatch_ok
         THEN [cnd |-> ResetPool([c EXCEPT
                          !.num_job_submissions = @ + 1,
                          !.num_cmd_submissions = @ + Len(c.pool)]),
               raised |-> FALSE,
               scripts |-> <<[cmds |-> c.pool,
                             status |-> IF c.dry_run THEN "dry" ELSE "submitted"]>>]
         ELSE [cnd |-> ResetPool([c EXCEPT !.failed_samples = @ \cup Range(c.pool)]),
               raised |-> TRUE,
               scripts |-> <<[cmds |-> c.pool, status |-> "failed"]>>]
    ELSE NoSubmission(c)

\* submit(force): the conductor after the call, whether it raised the
\* submission error, and the job script it wrote (none or one)
Submit(c, force, dispatch_ok) ==
    IF c.pool = <<>> THEN NoSubmission(c)
    ELSE IF force \/ IsFull(c)
    THEN IF c.dry_run \/ dispatch_ok
         THEN [cnd |-> ResetPool([c EXCEPT
                          !.num_job_submissions = @ + 1,
                          !.num_cmd_submissions = @ + Len(c.pool)]),
               raised |-> FALSE,
               scripts |-> <<[cmds |-> c.pool,
                             status |-> IF c.dry_run THEN "dry" ELSE "submitted"]>>]
         ELSE [cnd |-> ResetPool([c EXCEPT !.failed_samples = @ \cup Range(c.pool)]),
               raised |-> TRUE,
               scripts |-> <<[cmds |-> c.pool, status |-> "failed"]>>]
    ELSE NoSubmission(c)

\* add_sample that takes the sample's size off the batch's size
AddSampleMutShrinksSize(c, s, flags, size, dispatch_ok) ==
    IF flags # {} /\ ~c.ignore_flags
    THEN [cnd |-> c, reasons |-> <<FlagReason>>, raised |-> FALSE, scripts |-> <<>>]
    ELSE LET c1 == [c EXCEPT !.pool = Append(@, s), !.curr_size = @ - size]
             r  == IF IsFull(c1) THEN Submit(c1, FALSE, dispatch_ok)
                   ELSE NoSubmission(c1)
         IN  [cnd |-> r.cnd, reasons |-> <<>>, raised |-> r.raised,
              scripts |-> r.scripts]

\* add_sample(sample): as Submit, with the reasons returned
AddSample(c, s, flags, size, dispatch_ok) ==
    IF flags # {} /\ ~c.ignore_flags
    THEN [cnd |-> c, reasons |-> <<FlagReason>>, raised |-> FALSE, scripts |-> <<>>]
    ELSE LET c1 == [c EXCEPT !.pool = Append(@, s), !.curr_size = @ + size]
             r  == IF IsFull(c1) THEN Submit(c1, FALSE, dispatch_ok)
                   ELSE NoSubmission(c1)
         IN  [cnd |-> r.cnd, reasons |-> <<>>, raised |-> r.raised,
              scripts |-> r.scripts]

\* a submit call as the history keeps it: the conductor, the force argument,
\* the add_sample calls made before it and the commands the batch held
SubmitCall(src, force) ==
    [piface |-> src, force |-> force, ncalls |-> Len(calls),
     held |-> Len(conductors[src].pool)]

\* a job script as the history keeps it: whose it is and whether the flush
\* came from a submit call with force set
Tagged(scripts, src, by_force) ==
    [k \in 1 .. Len(scripts) |->
        [piface |-> src, cmds |-> scripts[k].cmds, status |-> scripts[k].status,
         forced |-> by_force]]

\* ---------------------------------------------------------- status flags

\* the flag vocabulary, in the order _get_flags goes through it
FLAGS == <<"completed", "running", "failed", "waiting">>

\* flag -> the status the table shows for it
TABLE_APPEARANCE_BY_FLAG ==
    [f \in Range(FLAGS) |->
        CASE f = "completed" -> "Completed"
          [] f = "running"   -> "Running"
          [] f = "failed"    -> "Failed"
          [] f = "waiting"   -> "Waiting"]

\* the pipelines whose flag files a sample directory may hold
PipelineNames == {"pl1", "pl2"}

\* the names a "<pipeline_name>_<name>.flag" file may carry: the vocabulary
\* and one name outside it
FlagFileNames == Range(FLAGS) \cup {"other"}

\* the file "<pipeline_name>_<f>.flag" of a directory
FlagPath(pipeline_name, f) == <<pipeline_name, f>>

\* the sample directories there may be: none, or one with any flag files
DirStates ==
    {[exists |-> FALSE, files |-> {}]}
    \cup {[exists |-> TRUE, files |-> fls] :
             fls \in SUBSET {FlagPath(p, f) : p \in PipelineNames, f \in FlagFileNames}}

\* _get_flags past its assert: [k for k, v in flag_paths_by_flag.items()
\* if os.path.exists(v)]
GetFlags(directory, pipeline_name) ==
    SelectSeq(FLAGS, LAMBDA f : FlagPath(pipeline_name, f) \in directory.files)

\* the outcomes of "assert os.path.exists(directory)": AssertionError on a
\* missing directory, or nothing at all where asserts are compiled out
AssertOutcomes(directory) ==
    IF directory.exists THEN {"passed"} ELSE {"AssertionError", "passed"}

\* the status derived with one flag already taken for several
StatusOfMutOneIsMultiple(flags) ==
    IF flags = <<>> THEN "Missing"
    ELSE IF Len(flags) >= 1 THEN "Multiple"
    ELSE IF flags[1] \in DOMAIN TABLE_APPEARANCE_BY_FLAG
         THEN TABLE_APPEARANCE_BY_FLAG[flags[1]]
         ELSE "Unknown"

\* create_status_table: the status it derives from the list of flags
StatusOf(flags) ==
    IF flags = <<>> THEN "Missing"
    ELSE IF Len(flags) > 1 THEN "Multiple"
    ELSE IF flags[1] \in DOMAIN TABLE_APPEARANCE_BY_FLAG
         THEN TABLE_APPEARANCE_BY_FLAG[flags[1]]
         ELSE "Unknown"

\* no status flag has been read
FlagFrameUnset ==
    /\ sample_dir = [exists |-> FALSE, files |-> {}]
    /\ existing_flags = <<>>
    /\ flag = "none"

\* ------------------------------------------------------- compute settings

\* bound: the longest itemized specification drawn
MaxTokens == 2

\* A string is the sequence of its characters; a token of the itemized
\* specification is one such string.
Str1(a) == <<a>>
Str3(a, b, c) == <<a, b, c>>

\* the tokens drawn: well formed ones (two of them on one key), one with no
\* "=", one with two "=", and the empty token
Tokens == {Str3("k", "=", "1"), Str3("k", "=", "2"), Str3("m", "=", "1"),
           Str1("b"), Str3("k", "=", "="), <<>>}

\* kv.split("="): the pieces of the string between the "=" characters
RECURSIVE SplitEq(_)
SplitEq(s) ==
    IF \A i \in 1..Len(s) : s[i] # "="
    THEN <<s>>
    ELSE LET i == CHOOSE j \in 1..Len(s) :
                      s[j] = "=" /\ \A h \in 1..(j - 1) : s[h] # "="
         IN  <<SubSeq(s, 1, i - 1)>> \o SplitEq(SubSeq(s, i + 1, Len(s)))

\* ",".join(tokens): the string a list of tokens is written as on the command line
RECURSIVE JoinComma(_)
JoinComma(toks) ==
    IF toks = <<>> THEN <<>>
    ELSE IF Len(toks) = 1 THEN toks[1]
    ELSE toks[1] \o <<",">> \o JoinComma(Tail(toks))

\* "k, v = pair" succeeds for a token that splits into exactly two pieces
Unpacks(kv) == Len(SplitEq(kv)) = 2

\* the loop over pairs: data[k] = v for each token that unpacks, in order
RECURSIVE StoreGood(_, _)
StoreGood(data, kvs) ==
    IF kvs = <<>> THEN data
    ELSE LET pair == SplitEq(Head(kvs))
         IN  StoreGood(IF Len(pair) = 2 THEN Put(data, pair[1], pair[2]) ELSE data,
                       Tail(kvs))

\* bads: the tokens that did not unpack, in order
Bads(kvs) == SelectSeq(kvs, LAMBDA kv : ~Unpacks(kv))

\* EXAMPLE_COMPUTE_SPEC_FMT
EXAMPLE_COMPUTE_SPEC_FMT == "k1=v1 k2=v2"

\* the ValueError raised for bad tokens: a fixed text and the example format;
\* tokens is the list of tokens the message quotes
BadSpecMessage(bads) ==
    [text |-> "Could not correctly parse itemized compute specification. Correct format: ",
     example |-> EXAMPLE_COMPUTE_SPEC_FMT,
     tokens |-> <<>>]

NoMessage == [text |-> "", example |-> "", tokens |-> <<>>]

\* looper._proc_resources_spec(spec), spec the string of --compute (kvs are
\* its pieces between commas; the empty string is no specification)
ProcResourcesSpec(kvs) ==
    IF JoinComma(kvs) = <<>>
    THEN [raised |-> FALSE, data |-> <<>>, message |-> NoMessage]
    ELSE IF Bads(kvs) # <<>>
    THEN [raised |-> TRUE, data |-> <<>>, message |-> BadSpecMessage(Bads(kvs))]
    ELSE [raised |-> FALSE, data |-> StoreGood(<<>>, kvs), message |-> NoMessage]

\* read_yaml_file(args.settings) when args has settings, else {}; a file that
\* is not valid YAML is disregarded with a warning
SettingsData(file) ==
    IF file.present /\ file.valid THEN file.data ELSE <<>>

\* pydantic_argparse_demo._proc_resources_spec(args), spec the list of
\* --compute (an empty list is no specification)
ProcResourcesSpecDemo(file, kvs) ==
    IF kvs = <<>>
    THEN [raised |-> FALSE, data |-> SettingsData(file), message |-> NoMessage]
    ELSE IF Bads(kvs) # <<>>
    THEN [raised |-> TRUE, data |-> <<>>, message |-> BadSpecMessage(Bads(kvs))]
    ELSE [raised |-> FALSE, data |-> StoreGood(SettingsData(file), kvs),
          message |-> NoMessage]

\* dict.update: the entries of other replace and extend those of base
UpdateMutKeepsBase(base, other) ==
    [k \in DOMAIN base \cup DOMAIN other |->
        IF k \in DOMAIN base THEN base[k] ELSE other[k]]

Update(base, other) ==
    [k \in DOMAIN base \cup DOMAIN other |->
        IF k \in DOMAIN other THEN other[k] ELSE base[k]]

\* no compute setting has been read
ComputeFrameUnset ==
    /\ compute = <<>>
    /\ settings = [present |-> FALSE, valid |-> FALSE, data |-> <<>>]
    /\ dcc = <<>>
    /\ compute_kwargs = <<>>
    /\ comp_vars = <<>>
    /\ error = NoMessage

\* no Collator has been called
CollateFrameUnset ==
    /\ cfg_pifaces = None
    /\ piface_lines = <<>>
    /\ jobs_submitted = 0
    /\ collate_flushes = FALSE

\* no Checker has been called
CheckFrameUnset ==
    /\ marker_files = <<>>
    /\ check_flags = <<>>
    /\ files_by_flag = <<>>
    /\ check_log = <<>>

\* the API server's module state before any request
ApiFrameUnset ==
    /\ api_jobs = <<>>
    /\ job_heap = <<>>
    /\ tasks = <<>>
    /\ last_get = <<>>

ExtFrameUnset ==
    /\ ComputeFrameUnset
    /\ CollateFrameUnset
    /\ CheckFrameUnset
    /\ ApiFrameUnset

\* ------------------------------------------------------------------- Init

\* the filesystems a project can be found in: a cleanup script lies inside
\* its sample folder
FsStates ==
    {f \in SUBSET ({Folder(s) : s \in Samples} \cup {CleanupScript(s) : s \in Samples}
                   \cup {SummaryPaths[k] : k \in 1 .. Len(SummaryPaths)}) :
        \A s \in Samples : CleanupScript(s) \in f => Folder(s) \in f}

\* the Runner's frame before Runner.__call__ has run
RunFrameUnset ==
    /\ conductors = <<>>
    /\ conductor_keys = <<>>
    /\ failures = <<>>
    /\ processed_samples = {}
    /\ pl_fails = <<>>
    /\ jdx = 0
    /\ kdx = 0
    /\ upper_sample_bound = 0
    /\ num_commands_possible = 0
    /\ failed_submission_scripts = <<>>
    /\ job_sub_total = 0
    /\ cmd_sub_total = 0
    /\ report = <<>>
    /\ jobs = <<>>
    /\ calls = <<>>
    /\ skipped = {}
    /\ submits = <<>>
    /\ invalid = {}

\* main(): Destroyer(prj)(args) / Cleaner(prj)(args), preview_flag defaulting to True
InitCleanDestroy ==
    /\ command \in {"clean", "destroy"}
    /\ \E d \in BOOLEAN, f \in BOOLEAN :
          args = [dry_run |-> d, force_yes |-> f, limit |-> None, lumpn |-> None,
                  lump |-> None, ignore_flags |-> FALSE]
    /\ fs \in FsStates
    /\ fs0 = fs
    /\ scripts_run = <<>>
    /\ asked = 0
    /\ answer = "none"
    /\ preview_flag = TRUE
    /\ passes = <<TRUE>>
    /\ idx = 1
    /\ counter = [count |-> 0, total |-> NumSamples]
    /\ counter_log = <<>>
    /\ FlagFrameUnset
    /\ ExtFrameUnset
    /\ pc = "loop"
    /\ ret = "none"
    /\ piface_attr = [s \in Samples |-> <<>>]
    /\ input_size = [s \in Samples |-> 1]
    /\ samples_by_interface = SamplesByInterface
    /\ interfaces_by_sample = InterfacesBySample
    /\ RunFrameUnset

\* ---------------------------------------------------------------- Cleaner

\* Cleaner.__call__, one iteration of "for sample in self.prj.samples"
CleanSample ==
    /\ command = "clean" /\ pc = "loop" /\ idx <= NumSamples
    /\ counter' = Show(counter)
    /\ counter_log' = Append(counter_log, ShowCall(Show(counter)))
    /\ LET cleanup_files == CleanupFiles(idx, fs)
       IN  scripts_run' = IF preview_flag THEN scripts_run
                          ELSE scripts_run \o cleanup_files
    /\ idx' = idx + 1
    /\ UNCHANGED <<command, args, pc, ret, fs, fs0, asked, answer, preview_flag, passes>>
    /\ UNCHANGED extvars
    /\ UNCHANGED <<projvars, flagvars, runvars, histvars>>

\* Cleaner.__call__ after the loop, with the prompt put before the return of
\* the execution pass
CleanFinishMutAsksInExecution ==
    /\ command = "clean" /\ pc = "loop" /\ idx > NumSamples
    /\ \/ /\ ~preview_flag
          /\ \E yes \in BOOLEAN :
                /\ asked' = asked + 1
                /\ answer' = IF yes THEN "yes" ELSE "no"
          /\ ret' = "0" /\ pc' = "done"
          /\ UNCHANGED <<counter, counter_log, preview_flag, passes, idx>>
       \/ /\ preview_flag /\ args.dry_run
          /\ ret' = "0" /\ pc' = "done"
          /\ UNCHANGED <<asked, answer, counter, counter_log, preview_flag, passes, idx>>
       \/ /\ preview_flag /\ ~args.dry_run /\ ~args.force_yes
          /\ \E yes \in BOOLEAN :
                /\ asked' = asked + 1
                /\ answer' = IF yes THEN "yes" ELSE "no"
                /\ IF yes
                   THEN /\ counter' = Reset(counter)
                        /\ counter_log' = Append(counter_log, ResetCall(Reset(counter)))
                        /\ preview_flag' = FALSE
                        /\ passes' = Append(passes, FALSE)
                        /\ idx' = 1
                        /\ UNCHANGED <<ret, pc>>
                   ELSE /\ ret' = "1" /\ pc' = "done"
                        /\ UNCHANGED <<counter, counter_log, preview_flag, passes, idx>>
       \/ /\ preview_flag /\ ~args.dry_run /\ args.force_yes
          /\ counter' = Reset(counter)
          /\ counter_log' = Append(counter_log, ResetCall(Reset(counter)))
          /\ preview_flag' = FALSE
          /\ passes' = Append(passes, FALSE)
          /\ idx' = 1
          /\ UNCHANGED <<ret, pc, asked, answer>>
    /\ UNCHANGED <<command, args, fs, fs0, scripts_run>>
    /\ UNCHANGED extvars
    /\ UNCHANGED <<projvars, flagvars, runvars, histvars>>

\* Cleaner.__call__ after the loop: the returns, the prompt and the re-invocation
CleanFinish ==
    /\ command = "clean" /\ pc = "loop" /\ idx > NumSamples
    /\ \/ /\ ~preview_flag
          /\ ret' = "0" /\ pc' = "done"
          /\ UNCHANGED <<asked, answer, counter, counter_log, preview_flag, passes, idx>>
       \/ /\ preview_flag /\ args.dry_run
          /\ ret' = "0" /\ pc' = "done"
          /\ UNCHANGED <<asked, answer, counter, counter_log, preview_flag, passes, idx>>
       \/ /\ preview_flag /\ ~args.dry_run /\ ~args.force_yes
          /\ \E yes \in BOOLEAN :
                /\ asked' = asked + 1
                /\ answer' = IF yes THEN "yes" ELSE "no"
                /\ IF yes
                   THEN /\ counter' = Reset(counter)
                        /\ counter_log' = Append(counter_log, ResetCall(Reset(counter)))
                        /\ preview_flag' = FALSE
                        /\ passes' = Append(passes, FALSE)
                        /\ idx' = 1
                        /\ UNCHANGED <<ret, pc>>
                   ELSE /\ ret' = "1" /\ pc' = "done"
                        /\ UNCHANGED <<counter, counter_log, preview_flag, passes, idx>>
       \/ /\ preview_flag /\ ~args.dry_run /\ args.force_yes
          /\ counter' = Reset(counter)
          /\ counter_log' = Append(counter_log, ResetCall(Reset(counter)))
          /\ preview_flag' = FALSE
          /\ passes' = Append(passes, FALSE)
          /\ idx' = 1
          /\ UNCHANGED <<ret, pc, asked, answer>>
    /\ UNCHANGED <<command, args, fs, fs0, scripts_run>>
    /\ UNCHANGED extvars
    /\ UNCHANGED <<projvars, flagvars, runvars, histvars>>

\* -------------------------------------------------------------- Destroyer

\* Destroyer.__call__, one iteration of "for sample in self.prj.samples"
DestroySample ==
    /\ command = "destroy" /\ pc = "loop" /\ idx <= NumSamples
    /\ counter' = Show(counter)
    /\ counter_log' = Append(counter_log, ShowCall(Show(counter)))
    /\ fs' = IF preview_flag THEN fs
             ELSE RemoveOrDryRun(<<Folder(idx)>>, args.dry_run, fs)
    /\ idx' = idx + 1
    /\ UNCHANGED <<command, args, pc, ret, fs0, scripts_run, asked, answer,
                   preview_flag, passes>>
    /\ UNCHANGED extvars
    /\ UNCHANGED <<projvars, flagvars, runvars, histvars>>

\* Destroyer.__call__: "Removing summary:", destroy_summary(self.prj, args.dry_run)
DestroySummary ==
    /\ command = "destroy" /\ pc = "loop" /\ idx > NumSamples
    /\ fs' = DestroySummaryFs(args.dry_run, fs)
    /\ pc' = "decide"
    /\ UNCHANGED <<command, args, ret, fs0, scripts_run, asked, answer,
                   preview_flag, passes, idx, counter,
                   counter_log>>
    /\ UNCHANGED extvars
    /\ UNCHANGED <<projvars, flagvars, runvars, histvars>>

\* Destroyer.__call__ after destroy_summary: the returns, the prompt and the
\* re-invocation
DestroyFinish ==
    /\ command = "destroy" /\ pc = "decide"
    /\ \/ /\ ~preview_flag
          /\ ret' = "0" /\ pc' = "done"
          /\ UNCHANGED <<asked, answer, counter, counter_log, preview_flag, passes, idx>>
       \/ /\ preview_flag /\ args.dry_run
          /\ ret' = "0" /\ pc' = "done"
          /\ UNCHANGED <<asked, answer, counter, counter_log, preview_flag, passes, idx>>
       \/ /\ preview_flag /\ ~args.dry_run /\ ~args.force_yes
          /\ \E yes \in BOOLEAN :
                /\ asked' = asked + 1
                /\ answer' = IF yes THEN "yes" ELSE "no"
                /\ IF yes
                   THEN /\ counter' = Reset(counter)
                        /\ counter_log' = Append(counter_log, ResetCall(Reset(counter)))
                        /\ preview_flag' = FALSE
                        /\ passes' = Append(passes, FALSE)
                        /\ idx' = 1
                        /\ pc' = "loop"
                        /\ UNCHANGED ret
                   ELSE /\ ret' = "1" /\ pc' = "done"
                        /\ UNCHANGED <<counter, counter_log, preview_flag, passes, idx>>
       \/ /\ preview_flag /\ ~args.dry_run /\ args.force_yes
          /\ counter' = Reset(counter)
          /\ counter_log' = Append(counter_log, ResetCall(Reset(counter)))
          /\ preview_flag' = FALSE
          /\ passes' = Append(passes, FALSE)
          /\ idx' = 1
          /\ pc' = "loop"
          /\ UNCHANGED <<ret, asked, answer>>
    /\ UNCHANGED <<command, args, fs, fs0, scripts_run>>
    /\ UNCHANGED extvars
    /\ UNCHANGED <<projvars, flagvars, runvars, histvars>>

\* ----------------------------------------------------------------- Runner

\* the pipeline interface source lists a sample's attribute may hold
AttrChoices == {<<>>, <<"p1">>, <<"p2", "bad", "p2", "p1">>}

LimitChoices == {None} \cup {Some(n) : n \in (0 - 1) .. NumSamples}
LumpnChoices == {None, Some(1), Some(2)}
LumpChoices == {None, Some(2)}
\* the input file sizes of the samples: all small, all large, or alternating
SizeChoices ==
    {[s \in Samples |-> 1], [s \in Samples |-> 2],
     [s \in Samples |-> IF s % 2 = 1 THEN 1 ELSE 2]}

\* the outcomes the external submission command may still have
DispatchOutcomes ==
    IF Cardinality({k \in 1 .. Len(jobs) : jobs[k].status = "failed"})
           < MaxDispatchFailures
    THEN BOOLEAN ELSE {TRUE}

SUBMISSION_FAILURE_MESSAGE == "Submission failure"
NoPifaceReasonMutFlagText == "Pipeline flag found"

NoPifaceReason == "No pipeline interfaces defined"

\* main(): Runner(prj)(args, remaining_args, rerun=False)
InitRun ==
    /\ command = "run"
    /\ \E d \in BOOLEAN, ig \in BOOLEAN, li \in LimitChoices,
          ln \in LumpnChoices, lu \in LumpChoices :
          args = [dry_run |-> d, force_yes |-> FALSE, limit |-> li, lumpn |-> ln,
                  lump |-> lu, ignore_flags |-> ig]
    /\ piface_attr \in [Samples -> AttrChoices]
    /\ input_size \in SizeChoices
    /\ IsNone(args.lump) => input_size = [s \in Samples |-> 1]
    /\ samples_by_interface = SamplesByInterface
    /\ interfaces_by_sample = InterfacesBySample
    /\ fs = {} /\ fs0 = {} /\ scripts_run = <<>> /\ asked = 0 /\ answer = "none"
    /\ preview_flag = TRUE /\ passes = <<>>
    /\ idx = 1
    /\ counter = [count |-> 0, total |-> NumSamples]
    /\ counter_log = <<>>
    /\ FlagFrameUnset
    /\ ExtFrameUnset
    /\ pc = "setup"
    /\ ret = "none"
    /\ RunFrameUnset

\* SubmissionConductor(...) with lumpn and lump handed over crosswise
NewConductorMutSwapsThresholds(a) ==
    [pool |-> <<>>, curr_size |-> 0,
     num_job_submissions |-> 0, num_cmd_submissions |-> 0, failed_samples |-> {},
     max_cmds |-> a.lump, max_size |-> a.lumpn,
     dry_run |-> a.dry_run, ignore_flags |-> a.ignore_flags]

\* SubmissionConductor(...) with ignore_flags always set
NewConductorMutIgnoresFlags(a) ==
    [pool |-> <<>>, curr_size |-> 0,
     num_job_submissions |-> 0, num_cmd_submissions |-> 0, failed_samples |-> {},
     max_cmds |-> a.lumpn, max_size |-> a.lump,
     dry_run |-> a.dry_run, ignore_flags |-> TRUE]

\* SubmissionConductor(...) with dry_run never set
NewConductorMutNeverDry(a) ==
    [pool |-> <<>>, curr_size |-> 0,
     num_job_submissions |-> 0, num_cmd_submissions |-> 0, failed_samples |-> {},
     max_cmds |-> a.lumpn, max_size |-> a.lump,
     dry_run |-> FALSE, ignore_flags |-> a.ignore_flags]

\* Runner.__call__: SubmissionConductor(pipeline_interface=piface, ...,
\* dry_run=args.dry_run, ignore_flags=args.ignore_flags, max_cmds=args.lumpn,
\* max_size=args.lump)
NewConductor(a) ==
    [pool |-> <<>>, curr_size |-> 0,
     num_job_submissions |-> 0, num_cmd_submissions |-> 0, failed_samples |-> {},
     max_cmds |-> a.lumpn, max_size |-> a.lump,
     dry_run |-> a.dry_run, ignore_flags |-> a.ignore_flags]

\* sum(list(map(len, self.prj._samples_by_interface.values())))
RECURSIVE SumCard(_, _)
SumCard(f, keys) ==
    IF keys = {} THEN 0
    ELSE LET k == CHOOSE x \in keys : TRUE
         IN  Cardinality(f[k]) + SumCard(f, keys \ {k})

MaxCmds == SumCard(samples_by_interface, DOMAIN samples_by_interface)

Min(a, b) == IF a <= b THEN a ELSE b

\* upper_sample_bound with the limit left out of it
UpperSampleBoundMutIgnoresLimit(limit) == NumSamples

\* upper_sample_bound for a limit that is None or not negative
UpperSampleBound(limit) ==
    IF IsNone(limit) THEN NumSamples ELSE Min(Val(limit), NumSamples)

\* a limit check that lets every limit pass
LimitAcceptedMutAcceptsNegative(limit) == TRUE

\* args.limit passes "elif args.limit < 0: raise ValueError"
LimitAccepted(limit) == IF IsNone(limit) THEN TRUE ELSE Val(limit) >= 0

\* Runner.__call__ up to the sample loop: the counter's total, the sample
\* bound (a negative limit raises ValueError), validate_config (which raises
\* on a project that fails a schema) and one conductor per interface, later
\* ones replacing earlier ones under the same pipe_iface_file
RunSetup ==
    /\ command = "run" /\ pc = "setup"
    /\ counter' = [counter EXCEPT !.total = MaxCmds]
    /\ UNCHANGED counter_log
    /\ \/ /\ ~LimitAccepted(args.limit)
          /\ ret' = "ValueError" /\ pc' = "done"
          /\ UNCHANGED <<conductors, conductor_keys, upper_sample_bound>>
       \/ /\ LimitAccepted(args.limit)
          /\ interfaces_by_sample # <<>>
          /\ upper_sample_bound' = UpperSampleBound(args.limit)
          /\ ret' = "ConfigValidationError" /\ pc' = "done"
          /\ UNCHANGED <<conductors, conductor_keys>>
       \/ /\ LimitAccepted(args.limit)
          /\ upper_sample_bound' = UpperSampleBound(args.limit)
          /\ LET pifaces == PipelineInterfaces
             IN  /\ conductors' = [src \in Range(pifaces) |-> NewConductor(args)]
                 /\ conductor_keys' = KeyOrder(pifaces)
          /\ pc' = "sample"
          /\ UNCHANGED ret
    /\ UNCHANGED extvars
    /\ UNCHANGED <<command, args, idx, cdvars, projvars, flagvars, histvars>>
    /\ UNCHANGED <<failures, processed_samples, pl_fails, jdx, kdx,
                   num_commands_possible, failed_submission_scripts,
                   job_sub_total, cmd_sub_total, report>>

\* Runner.__call__, top of one iteration of the sample loop: a sample without
\* interfaces is recorded and left; validate_sample raises on a sample that
\* fails a schema, and nothing catches it
RunSampleBegin ==
    /\ command = "run" /\ pc = "sample" /\ idx <= upper_sample_bound /\ jdx = 0
    /\ LET sample_pifaces == GetSamplePiface(idx)
       IN  \/ /\ sample_pifaces = <<>>
              /\ failures' = Put(failures, idx, <<NoPifaceReason>>)
              /\ idx' = idx + 1
              /\ UNCHANGED <<processed_samples, pl_fails, jdx, pc, ret, invalid>>
           \/ /\ sample_pifaces # <<>>
              /\ invalid' = invalid \cup {idx}
              /\ ret' = "ValidationError" /\ pc' = "done"
              /\ UNCHANGED <<failures, processed_samples, pl_fails, jdx, idx>>
           \/ /\ sample_pifaces # <<>>
              /\ processed_samples' = processed_samples \cup {idx}
              /\ pl_fails' = <<>>
              /\ jdx' = 1
              /\ UNCHANGED <<failures, idx, pc, ret, invalid>>
    /\ UNCHANGED extvars
    /\ UNCHANGED <<command, args, counter, counter_log, cdvars, projvars, flagvars>>
    /\ UNCHANGED <<conductors, conductor_keys, kdx, upper_sample_bound,
                   num_commands_possible, failed_submission_scripts, job_sub_total,
                   cmd_sub_total, report>>
    /\ UNCHANGED <<jobs, calls, skipped, submits>>

\* failures[sample.sample_name].extend(pl_fails) on a defaultdict(list)
Extend(f, s, reasons) ==
    Put(f, s, (IF s \in DOMAIN f THEN f[s] ELSE <<>>) \o reasons)

\* the body of the try left without its else: the returned reasons are dropped
CollectMutDropsReasons(fails, r) == fails

\* try: curr_pl_fails = cndtr.add_sample(...); except JobSubmissionException:
\* ...; else: pl_fails.extend(curr_pl_fails)
Collect(fails, r) == IF r.raised THEN fails ELSE fails \o r.reasons

\* Runner.__call__, one iteration of "for sample_piface in sample_pifaces",
\* and after the last one "if pl_fails: failures[...].extend(pl_fails)"
RunAddSample ==
    /\ command = "run" /\ pc = "sample" /\ jdx >= 1
    /\ LET sample_pifaces == GetSamplePiface(idx)
           src == sample_pifaces[jdx]
       IN  \E flags \in FlagChoices, dispatch_ok \in DispatchOutcomes :
             LET r == AddSample(conductors[src], idx, flags, input_size[idx],
                                dispatch_ok)
                 fails == Collect(pl_fails, r)
             IN  /\ counter' = Show(counter)
                 /\ counter_log' = Append(counter_log, ShowCall(Show(counter)))
                 /\ num_commands_possible' = num_commands_possible + 1
                 /\ conductors' = [conductors EXCEPT ![src] = r.cnd]
                 /\ failed_submission_scripts' =
                        IF r.raised
                        THEN failed_submission_scripts \o Tagged(r.scripts, src, FALSE)
                        ELSE failed_submission_scripts
                 /\ jobs' = jobs \o Tagged(r.scripts, src, FALSE)
                 /\ calls' = Append(calls, [sample |-> idx, piface |-> src,
                                            flags |-> flags])
                 /\ skipped' = IF Len(fails) > Len(pl_fails)
                               THEN skipped \cup {<<idx, src>>} ELSE skipped
                 /\ IF jdx < Len(sample_pifaces)
                    THEN /\ jdx' = jdx + 1
                         /\ pl_fails' = fails
                         /\ UNCHANGED <<failures, idx>>
                    ELSE /\ jdx' = 0
                         /\ idx' = idx + 1
                         /\ pl_fails' = fails
                         /\ failures' = IF fails # <<>>
                                        THEN Extend(failures, idx, fails)
                                        ELSE failures
    /\ UNCHANGED extvars
    /\ UNCHANGED <<command, args, pc, ret, cdvars, projvars, flagvars>>
    /\ UNCHANGED <<processed_samples, conductor_keys, kdx, upper_sample_bound,
                   job_sub_total, cmd_sub_total, report, submits, invalid>>

\* Runner.__call__ after the sample loop: job_sub_total = 0, cmd_sub_total = 0
RunSamplesDone ==
    /\ command = "run" /\ pc = "sample" /\ idx > upper_sample_bound /\ jdx = 0
    /\ job_sub_total' = 0
    /\ cmd_sub_total' = 0
    /\ kdx' = 1
    /\ pc' = "flush"
    /\ UNCHANGED extvars
    /\ UNCHANGED <<command, args, ret, idx, counter, counter_log, cdvars, projvars,
                   flagvars, histvars>>
    /\ UNCHANGED <<conductors, conductor_keys, failures, processed_samples,
                   pl_fails, jdx, upper_sample_bound, num_commands_possible,
                   failed_submission_scripts, report>>

\* the end-of-run flush asked without force
FlushArgMutNotForced == FALSE

\* the force argument of the end-of-run conductor.submit(force=True)
FlushArg == TRUE

\* Runner.__call__, one iteration of "for piface, conductor in
\* submission_conductors.items()": conductor.submit(force=True) outside any
\* try, then the totals
RunFlush ==
    /\ command = "run" /\ pc = "flush" /\ kdx <= Len(conductor_keys)
    /\ LET src == conductor_keys[kdx]
       IN  \E dispatch_ok \in DispatchOutcomes :
             LET r == Submit(conductors[src], FlushArg, dispatch_ok)
             IN  /\ conductors' = [conductors EXCEPT ![src] = r.cnd]
                 /\ jobs' = jobs \o Tagged(r.scripts, src, TRUE)
                 /\ submits' = Append(submits, SubmitCall(src, FlushArg))
                 /\ IF r.raised
                    THEN /\ ret' = "JobSubmissionException" /\ pc' = "done"
                         /\ UNCHANGED <<job_sub_total, cmd_sub_total, kdx>>
                    ELSE /\ job_sub_total' = job_sub_total + r.cnd.num_job_submissions
                         /\ cmd_sub_total' = cmd_sub_total + r.cnd.num_cmd_submissions
                         /\ kdx' = kdx + 1
                         /\ UNCHANGED <<ret, pc>>
    /\ UNCHANGED extvars
    /\ UNCHANGED <<command, args, idx, counter, counter_log, cdvars, projvars, flagvars>>
    /\ UNCHANGED <<conductor_keys, failures, processed_samples, pl_fails, jdx,
                   upper_sample_bound, num_commands_possible,
                   failed_submission_scripts, report>>
    /\ UNCHANGED <<calls, skipped, invalid>>

\* samples_by_reason with "samples_by_reason[f] = {sample}" for the add: a
\* reason keeps the last of its samples only
SamplesByReasonMutOverwrites(fails, cnds) ==
    LET reasons == UNION {Range(fails[s]) : s \in DOMAIN fails}
        failed  == UNION {cnds[c].failed_samples : c \in DOMAIN cnds}
        keys    == reasons \cup (IF failed # {} THEN {SUBMISSION_FAILURE_MESSAGE} ELSE {})
    IN  [reason \in keys |->
            {s \in DOMAIN fails :
                /\ reason \in Range(fails[s])
                /\ \A s2 \in DOMAIN fails : reason \in Range(fails[s2]) => s2 <= s}
            \cup (IF reason = SUBMISSION_FAILURE_MESSAGE THEN failed ELSE {})]

\* samples_by_reason: the failures inverted, plus the conductors' failed
\* samples under SUBMISSION_FAILURE_MESSAGE
SamplesByReason(fails, cnds) ==
    LET reasons == UNION {Range(fails[s]) : s \in DOMAIN fails}
        failed  == UNION {cnds[c].failed_samples : c \in DOMAIN cnds}
        keys    == reasons \cup (IF failed # {} THEN {SUBMISSION_FAILURE_MESSAGE} ELSE {})
    IN  [reason \in keys |->
            {s \in DOMAIN fails : reason \in Range(fails[s])}
            \cup (IF reason = SUBMISSION_FAILURE_MESSAGE THEN failed ELSE {})]

\* Runner.__call__, the report: the logged totals and the summary of failures
RunReport ==
    /\ command = "run" /\ pc = "flush" /\ kdx > Len(conductor_keys)
    /\ report' = [valid |-> Cardinality(processed_samples),
                  successful |-> NumSamples - Cardinality(DOMAIN failures),
                  commands |-> cmd_sub_total,
                  possible |-> counter.total,
                  jobs |-> job_sub_total,
                  samples_by_reason |-> SamplesByReason(failures, conductors)]
    /\ ret' = "None" /\ pc' = "done"
    /\ UNCHANGED extvars
    /\ UNCHANGED <<command, args, idx, counter, counter_log, cdvars, projvars, flagvars, histvars>>
    /\ UNCHANGED <<conductors, conductor_keys, failures, processed_samples,
                   pl_fails, jdx, kdx, upper_sample_bound, num_commands_possible,
                   failed_submission_scripts, job_sub_total, cmd_sub_total>>

vars == <<command, args, pc, ret, fs, fs0, scripts_run, asked, answer,
          preview_flag, idx, passes, counter, counter_log, projvars, flagvars,
          runvars, histvars,
          extvars>>

\* main(): the command decides the driver
Init == InitCleanDestroy \/ InitRun

Next ==
    \/ CleanSample
    \/ CleanFinish
    \/ DestroySample
    \/ DestroySummary
    \/ DestroyFinish
    \/ RunSetup
    \/ RunSampleBegin
    \/ RunAddSample
    \/ RunSamplesDone
    \/ RunFlush
    \/ RunReport

Spec == Init /\ [][Next]_vars

\* main() runs its driver to the end: a step that can be taken is taken
FairSpec == Spec /\ WF_vars(Next)

\* ------------------------------------------- the conductor, called directly

\* Two conductors as Runner.__call__ builds them, for callers that use
\* add_sample and submit in any order (Runner: add_sample and submit(True);
\* Collator: submit()).
InitConductor ==
    /\ command = "conductor"
    /\ \E d \in BOOLEAN, ig \in BOOLEAN, ln \in LumpnChoices, lu \in LumpChoices :
          args = [dry_run |-> d, force_yes |-> FALSE, limit |-> None, lumpn |-> ln,
                  lump |-> lu, ignore_flags |-> ig]
    /\ piface_attr = [s \in Samples |-> <<"p1", "p2">>]
    /\ input_size = [s \in Samples |-> IF s % 2 = 1 THEN 1 ELSE 2]
    /\ samples_by_interface = SamplesByInterface
    /\ interfaces_by_sample = InterfacesBySample
    /\ fs = {} /\ fs0 = {} /\ scripts_run = <<>> /\ asked = 0 /\ answer = "none"
    /\ preview_flag = TRUE /\ passes = <<>>
    /\ idx = 1
    /\ counter = [count |-> 0, total |-> NumSamples]
    /\ counter_log = <<>>
    /\ FlagFrameUnset
    /\ ExtFrameUnset
    /\ pc = "api"
    /\ ret = "none"
    /\ conductors = [src \in {"p1", "p2"} |-> NewConductor(args)]
    /\ conductor_keys = <<"p1", "p2">>
    /\ failures = <<>>
    /\ processed_samples = {}
    /\ pl_fails = <<>>
    /\ jdx = 0
    /\ kdx = 0
    /\ upper_sample_bound = 0
    /\ num_commands_possible = 0
    /\ failed_submission_scripts = <<>>
    /\ job_sub_total = 0
    /\ cmd_sub_total = 0
    /\ report = <<>>
    /\ jobs = <<>>
    /\ calls = <<>>
    /\ skipped = {}
    /\ submits = <<>>
    /\ invalid = {}

OpsMade == Len(calls) + Len(submits)

\* a call that empties the batches of the conductors it was not made on
OnConductorMutResetsOthers(cs, src, c) ==
    [k \in DOMAIN cs |-> IF k = src THEN c ELSE ResetPool(cs[k])]

\* the conductors after a call on the conductor of src left it as c: a
\* conductor is an object of its own, the call changes that object alone
OnConductor(cs, src, c) == [cs EXCEPT ![src] = c]

\* conductor.add_sample(sample) by any caller; the samples come in project
\* order, round and round
ApiAddSample ==
    /\ command = "conductor" /\ pc = "api" /\ OpsMade < MaxOps
    /\ \E src \in DOMAIN conductors, flags \in FlagChoices,
          dispatch_ok \in DispatchOutcomes :
          LET s == (Len(calls) % NumSamples) + 1
              r == AddSample(conductors[src], s, flags, input_size[s], dispatch_ok)
          IN  /\ conductors' = OnConductor(conductors, src, r.cnd)
              /\ jobs' = jobs \o Tagged(r.scripts, src, FALSE)
              /\ calls' = Append(calls, [sample |-> s, piface |-> src,
                                         flags |-> flags])
              /\ skipped' = IF r.reasons # <<>> THEN skipped \cup {<<s, src>>}
                            ELSE skipped
    /\ UNCHANGED extvars
    /\ UNCHANGED <<command, args, pc, ret, idx, counter, counter_log, cdvars, projvars, flagvars>>
    /\ UNCHANGED <<conductor_keys, failures, processed_samples, pl_fails, jdx, kdx,
                   upper_sample_bound, num_commands_possible,
                   failed_submission_scripts, job_sub_total, cmd_sub_total, report>>
    /\ UNCHANGED <<submits, invalid>>

\* conductor.submit(force) by any caller
ApiSubmit ==
    /\ command = "conductor" /\ pc = "api" /\ OpsMade < MaxOps
    /\ \E src \in DOMAIN conductors, force \in BOOLEAN,
          dispatch_ok \in DispatchOutcomes :
          LET r == Submit(conductors[src], force, dispatch_ok)
          IN  /\ conductors' = OnConductor(conductors, src, r.cnd)
              /\ jobs' = jobs \o Tagged(r.scripts, src, force)
              /\ submits' = Append(submits, SubmitCall(src, force))
    /\ UNCHANGED extvars
    /\ UNCHANGED <<command, args, pc, ret, idx, counter, counter_log, cdvars, projvars, flagvars>>
    /\ UNCHANGED <<conductor_keys, failures, processed_samples, pl_fails, jdx, kdx,
                   upper_sample_bound, num_commands_possible,
                   failed_submission_scripts, job_sub_total, cmd_sub_total, report>>
    /\ UNCHANGED <<calls, skipped, invalid>>

NextConductor == ApiAddSample \/ ApiSubmit

ConductorSpec == InitConductor /\ [][NextConductor]_vars

\* ------------------------------------------- status flags, read directly

\* One sample directory and one pipeline: _get_flags called on it, or
\* create_status_table making the sample's row.
InitFlags ==
    /\ command \in {"get_flags", "status_table"}
    /\ \E p \in PipelineNames : args = [pipeline_name |-> p]
    /\ sample_dir \in DirStates
    /\ existing_flags = <<>>
    /\ flag = "none"
    /\ pc = "call"
    /\ ret = "none"
    /\ fs = {} /\ fs0 = {} /\ scripts_run = <<>> /\ asked = 0 /\ answer = "none"
    /\ preview_flag = TRUE /\ passes = <<>>
    /\ idx = 1
    /\ counter = [count |-> 0, total |-> 0]
    /\ counter_log = <<>>
    /\ piface_attr = [s \in Samples |-> <<>>]
    /\ input_size = [s \in Samples |-> 1]
    /\ samples_by_interface = SamplesByInterface
    /\ interfaces_by_sample = InterfacesBySample
    /\ RunFrameUnset
    /\ ExtFrameUnset

\* _get_flags(directory, pipeline_name): the assert, then the list of the
\* flags whose file exists
GetFlagsCall ==
    /\ command = "get_flags" /\ pc = "call"
    /\ \E outcome \in AssertOutcomes(sample_dir) :
          IF outcome = "AssertionError"
          THEN /\ ret' = "AssertionError"
               /\ UNCHANGED existing_flags
          ELSE /\ ret' = "list"
               /\ existing_flags' = GetFlags(sample_dir, args.pipeline_name)
    /\ pc' = "done"
    /\ UNCHANGED extvars
    /\ UNCHANGED <<command, args, idx, counter, counter_log, cdvars, projvars,
                   runvars, histvars, sample_dir, flag>>

\* create_status_table, one iteration of "for sample in rb.prj.samples": a
\* row with the status for a sample directory that exists, a warning for one
\* that does not
StatusRow ==
    /\ command = "status_table" /\ pc = "call"
    /\ IF sample_dir.exists
       THEN LET flags == GetFlags(sample_dir, args.pipeline_name)
            IN  /\ existing_flags' = flags
                /\ flag' = StatusOf(flags)
                /\ ret' = "row"
       ELSE /\ ret' = "sample_warning"
            /\ UNCHANGED <<existing_flags, flag>>
    /\ pc' = "done"
    /\ UNCHANGED extvars
    /\ UNCHANGED <<command, args, idx, counter, counter_log, cdvars, projvars,
                   runvars, histvars, sample_dir>>

NextFlags == GetFlagsCall \/ StatusRow

FlagSpec == InitFlags /\ [][NextFlags]_vars

\* --------------------------------------------- compute settings of a run

\* the itemized specifications of at most n tokens
RECURSIVE TokenLists(_)
TokenLists(n) ==
    IF n = 0 THEN {<<>>}
    ELSE LET shorter == TokenLists(n - 1)
         IN  shorter \cup {Append(l, tok) : l \in {s \in shorter : Len(s) = n - 1},
                                             tok \in Tokens}

\* the variables a settings file or a compute package may define
ComputeMaps == {<<>>,
                Put(<<>>, Str1("k"), Str1("6")),
                Put(<<>>, Str1("k"), Str1("7")),
                Put(Put(<<>>, Str1("m"), Str1("8")), Str1("p"), Str1("9"))}

SettingsChoices ==
    {[present |-> FALSE, valid |-> FALSE, data |-> <<>>]}
    \cup {[present |-> TRUE, valid |-> FALSE, data |-> <<>>]}
    \cup {[present |-> TRUE, valid |-> TRUE, data |-> d] : d \in ComputeMaps}

\* "looper run" through looper.main (no settings file) or through the
\* pydantic_argparse_demo main (settings file and a list of tokens)
InitCompute ==
    /\ command \in {"run", "demo_run"}
    /\ args = [dry_run |-> FALSE]
    /\ compute \in TokenLists(MaxTokens)
    /\ settings \in IF command = "run"
                     THEN {[present |-> FALSE, valid |-> FALSE, data |-> <<>>]}
                     ELSE SettingsChoices
    /\ dcc \in ComputeMaps
    /\ compute_kwargs = <<>>
    /\ comp_vars = <<>>
    /\ error = NoMessage
    /\ pc = "proc_resources_spec"
    /\ ret = "none"
    /\ fs = {} /\ fs0 = {} /\ scripts_run = <<>> /\ asked = 0 /\ answer = "none"
    /\ preview_flag = TRUE /\ passes = <<>>
    /\ idx = 1
    /\ counter = [count |-> 0, total |-> 0]
    /\ counter_log = <<>>
    /\ piface_attr = [s \in Samples |-> <<>>]
    /\ input_size = [s \in Samples |-> 1]
    /\ samples_by_interface = SamplesByInterface
    /\ interfaces_by_sample = InterfacesBySample
    /\ RunFrameUnset
    /\ FlagFrameUnset
    /\ CollateFrameUnset
    /\ CheckFrameUnset
    /\ ApiFrameUnset

\* main(): compute_kwargs = _proc_resources_spec(...); a ValueError leaves
\* main before the driver is called
MainProcResourcesSpec ==
    /\ pc = "proc_resources_spec"
    /\ UNCHANGED apivars
    /\ LET r == IF command = "run"
                THEN ProcResourcesSpec(compute)
                ELSE ProcResourcesSpecDemo(settings, compute)
       IN  IF r.raised
           THEN /\ ret' = "ValueError"
                /\ error' = r.message
                /\ pc' = "done"
                /\ UNCHANGED compute_kwargs
           ELSE /\ compute_kwargs' = r.data
                /\ pc' = "runner"
                /\ UNCHANGED <<ret, error>>
    /\ UNCHANGED <<command, args, idx, counter, counter_log, cdvars, projvars,
                   flagvars, runvars, histvars, compute, settings, dcc, comp_vars>>
    /\ UNCHANGED <<collvars, checkvars>>

\* Runner.__call__: comp_vars = self.prj.dcc[COMPUTE_KEY].to_map();
\* comp_vars.update(compute_kwargs or {}); the conductors are built with it
RunnerCompVars ==
    /\ pc = "runner"
    /\ UNCHANGED apivars
    /\ comp_vars' = Update(dcc, compute_kwargs)
    /\ ret' = "None" /\ pc' = "done"
    /\ UNCHANGED <<command, args, idx, counter, counter_log, cdvars, projvars,
                   flagvars, runvars, histvars, compute, settings, dcc,
                   compute_kwargs, error>>
    /\ UNCHANGED <<collvars, checkvars>>

NextCompute == MainProcResourcesSpec \/ RunnerCompVars

ComputeSpec == InitCompute /\ [][NextCompute]_vars

\* ----------------------------------------------------------------- Collate

\* the pipeline_interfaces lists a project config may hold
CfgChoices == {None, Some(<<>>), Some(<<"p1">>), Some(<<"bad", "p2">>),
               Some(<<"p2", "p1">>), Some(<<"p1", "bad", "p2">>)}

\* Collator.__call__: project_pifaces, the keys of _samples_by_interface,
\* overridden by the config's pipeline_interfaces list when the key is there
ProjectPifaces ==
    IF IsNone(cfg_pifaces) THEN SourceOrder ELSE Val(cfg_pifaces)

\* Collator.__call__: SubmissionConductor(..., dry_run=args.dry_run,
\* ignore_flags=args.ignore_flags, collate=True), then conductor._pool = [None]
\* (the unit None is written 0)
NewCollateConductor(a) ==
    [pool |-> <<0>>, curr_size |-> 0,
     num_job_submissions |-> 0, num_cmd_submissions |-> 0, failed_samples |-> {},
     max_cmds |-> None, max_size |-> None,
     dry_run |-> a.dry_run, ignore_flags |-> a.ignore_flags]

\* conductor.submit() on a conductor built with collate=True: no force
\* argument is passed; flushes tells whether such a conductor flushes anyway
CollateSubmit(c, flushes, dispatch_ok) == Submit(c, flushes, dispatch_ok)

\* main(): Collator(prj) then collate(args, remaining_args, **compute_kwargs)
InitCollate ==
    /\ command = "runp"
    /\ \E d \in BOOLEAN :
          args = [dry_run |-> d, force_yes |-> FALSE, limit |-> None, lumpn |-> None,
                  lump |-> None, ignore_flags |-> FALSE]
    /\ piface_attr \in [Samples -> AttrChoices]
    /\ input_size = [s \in Samples |-> 1]
    /\ samples_by_interface = SamplesByInterface
    /\ interfaces_by_sample = InterfacesBySample
    /\ cfg_pifaces \in CfgChoices
    /\ collate_flushes \in BOOLEAN
    /\ piface_lines = <<>>
    /\ jobs_submitted = 0
    /\ fs = {} /\ fs0 = {} /\ scripts_run = <<>> /\ asked = 0 /\ answer = "none"
    /\ preview_flag = TRUE /\ passes = <<>>
    /\ idx = 1
    /\ counter = [count |-> 0, total |-> 0]
    /\ counter_log = <<>>
    /\ FlagFrameUnset
    /\ ComputeFrameUnset
    /\ CheckFrameUnset
    /\ ApiFrameUnset
    /\ pc = "construct"
    /\ ret = "none"
    /\ RunFrameUnset

\* Collator.__init__: a project whose samples have no pipeline interface is
\* refused
CollatorInit ==
    /\ command = "runp" /\ pc = "construct"
    /\ UNCHANGED apivars
    /\ IF PipelineInterfaces = <<>>
       THEN ret' = "MisconfigurationException" /\ pc' = "done"
       ELSE pc' = "call" /\ UNCHANGED ret
    /\ UNCHANGED <<command, args, idx, counter, counter_log, cdvars, projvars,
                   flagvars, runvars, histvars, compvars, collvars,
                   checkvars>>

\* Collator.__call__ up to the loop: the project pipeline interfaces; with
\* none, a warning and sys.exit(0); else the counter
CollateBegin ==
    /\ command = "runp" /\ pc = "call"
    /\ UNCHANGED apivars
    /\ piface_lines' = ProjectPifaces
    /\ IF ProjectPifaces = <<>>
       THEN /\ ret' = "SystemExit(0)" /\ pc' = "done"
            /\ UNCHANGED counter
       ELSE /\ counter' = [count |-> 0, total |-> Len(ProjectPifaces)]
            /\ pc' = "loop"
            /\ UNCHANGED ret
    /\ UNCHANGED <<command, args, idx, counter_log, cdvars, projvars,
                   flagvars, runvars, histvars, compvars, checkvars, cfg_pifaces,
                   jobs_submitted, collate_flushes>>

\* one iteration of "for project_piface in project_pifaces": a source that
\* does not load is passed over with a warning; else the counter is shown, a
\* conductor is built with the one-unit pool and submit() is called on it, a
\* submission error leaving the driver
CollatePiface ==
    /\ command = "runp" /\ pc = "loop" /\ idx <= Len(piface_lines)
    /\ UNCHANGED apivars
    /\ LET src == piface_lines[idx]
       IN  IF ~Loads(src)
           THEN /\ idx' = idx + 1
                /\ UNCHANGED <<pc, ret, counter, counter_log, conductors, conductor_keys,
                               jobs, submits, jobs_submitted>>
           ELSE \E ok \in DispatchOutcomes :
                LET c == NewCollateConductor(args)
                    r == CollateSubmit(c, collate_flushes, ok)
                IN  /\ counter' = Show(counter)
                    /\ counter_log' = Append(counter_log, ShowCall(Show(counter)))
                    /\ submits' = Append(submits, [piface |-> src, force |-> FALSE,
                                                   ncalls |-> 0, held |-> Len(c.pool)])
                    /\ jobs' = jobs \o Tagged(r.scripts, src, FALSE)
                    /\ conductors' = Append(conductors, r.cnd)
                    /\ conductor_keys' = Append(conductor_keys, src)
                    /\ IF r.raised
                       THEN /\ ret' = "JobSubmissionError" /\ pc' = "done"
                            /\ UNCHANGED <<idx, jobs_submitted>>
                       ELSE /\ jobs_submitted' = jobs_submitted + r.cnd.num_job_submissions
                            /\ idx' = idx + 1
                            /\ UNCHANGED <<pc, ret>>
    /\ UNCHANGED <<command, args, cdvars, projvars, flagvars, compvars, checkvars,
                   cfg_pifaces, piface_lines, collate_flushes>>
    /\ UNCHANGED <<failures, processed_samples, pl_fails, jdx, kdx,
                   upper_sample_bound, num_commands_possible,
                   failed_submission_scripts, job_sub_total, cmd_sub_total, report,
                   calls, skipped, invalid>>

\* after the loop: "Looper finished", "Jobs submitted: {jobs}"
CollateFinish ==
    /\ command = "runp" /\ pc = "loop" /\ idx > Len(piface_lines)
    /\ UNCHANGED apivars
    /\ report' = [jobs |-> jobs_submitted]
    /\ ret' = "None" /\ pc' = "done"
    /\ UNCHANGED <<command, args, idx, counter, counter_log, cdvars, projvars,
                   flagvars, histvars, compvars, collvars, checkvars>>
    /\ UNCHANGED <<conductors, conductor_keys, failures, processed_samples,
                   pl_fails, jdx, kdx, upper_sample_bound, num_commands_possible,
                   failed_submission_scripts, job_sub_total, cmd_sub_total>>

NextCollate == CollatorInit \/ CollateBegin \/ CollatePiface \/ CollateFinish

CollateSpec == InitCollate /\ [][NextCollate]_vars

\* main(): the four drivers that show progress: Clean, Destroy, Run, Collate
InitDrivers == Init \/ InitCollate

NextDrivers == Next \/ NextCollate

DriverSpec == InitDrivers /\ [][NextDrivers]_vars

\* ------------------------------------------------------------------- Check

\* max_file_count=30, the default of Checker.__call__ (main passes none)
max_file_count == 30

\* the numbers of marker files a flag may have: none, one, and the display
\* limit met and passed
MarkerCounts == {0, 1, max_file_count, max_file_count + 1}

\* the flags arguments main may hand over: none, one flag, several
FlagsArgChoices == {None, Some(<<"failed">>), Some(<<"running", "completed">>)}

\* sorted(...) of a list of flag names: alphabetical
SortedFlags(fl) ==
    SelectSeq(<<"completed", "failed", "running", "waiting">>,
              LAMBDA f : f \in Range(fl))

\* flags = sorted([flags] if isinstance(flags, str) else list(flags or FLAGS))
RequestedFlags(arg) ==
    IF IsNone(arg) \/ Val(arg) = <<>> THEN SortedFlags(FLAGS) ELSE SortedFlags(Val(arg))

\* the marker files of one flag found across the sample folders
MarkerFilesOf(f) == [k \in 1 .. marker_files[f] |-> <<f, k>>]

\* fetch_flag_files(prj=self.prj, flags=flags): flag -> the marker files found
FetchFlagFiles(fl) == [f \in Range(fl) |-> MarkerFilesOf(f)]

\* _LOGGER.info("%s: %d", flag.upper(), len(files_by_flag[flag]))
CountLine(f, files) == [kind |-> "count", flag |-> f, count |-> Len(files), files |-> <<>>]

\* _LOGGER.info("%s (%d):\n%s", flag.upper(), len(files), "\n".join(files))
FilesLine(f, files) == [kind |-> "files", flag |-> f, count |-> Len(files), files |-> files]

\* the display limit left out
WithinDisplayLimitMutNoLimit(files) == 0 < Len(files)

\* 0 < len(files) <= max_file_count
WithinDisplayLimit(files) == 0 < Len(files) /\ Len(files) <= max_file_count

\* the file lists logged for one flag: the full list when one flag alone is
\* checked and has files, then the list again if it is within the limit
FileLines(fl, f, files) ==
    (IF Len(fl) = 1 /\ Len(files) > 0 THEN <<FilesLine(f, files)>> ELSE <<>>)
    \o (IF WithinDisplayLimit(files) THEN <<FilesLine(f, files)>> ELSE <<>>)

\* main(): Checker(prj)(flags=args.flags)
InitCheck ==
    /\ command = "check"
    /\ \E fl \in FlagsArgChoices : args = [flags |-> fl]
    /\ marker_files \in [Range(FLAGS) -> MarkerCounts]
    /\ check_flags = <<>>
    /\ files_by_flag = <<>>
    /\ check_log = <<>>
    /\ pc = "fetch"
    /\ ret = "none"
    /\ fs = {} /\ fs0 = {} /\ scripts_run = <<>> /\ asked = 0 /\ answer = "none"
    /\ preview_flag = TRUE /\ passes = <<>>
    /\ idx = 1
    /\ counter = [count |-> 0, total |-> NumSamples]
    /\ counter_log = <<>>
    /\ piface_attr = [s \in Samples |-> <<>>]
    /\ input_size = [s \in Samples |-> 1]
    /\ samples_by_interface = SamplesByInterface
    /\ interfaces_by_sample = InterfacesBySample
    /\ RunFrameUnset
    /\ FlagFrameUnset
    /\ ComputeFrameUnset
    /\ CollateFrameUnset
    /\ ApiFrameUnset

\* Checker.__call__: the flags sorted, the files fetched
CheckFetch ==
    /\ command = "check" /\ pc = "fetch"
    /\ UNCHANGED apivars
    /\ check_flags' = RequestedFlags(args.flags)
    /\ files_by_flag' = FetchFlagFiles(RequestedFlags(args.flags))
    /\ idx' = 1
    /\ pc' = "counts"
    /\ UNCHANGED <<command, args, ret, counter, counter_log, cdvars, projvars,
                   flagvars, runvars, histvars, compvars, collvars, marker_files,
                   check_log>>

\* one iteration of the first "for flag in flags": the flag's count
CheckCount ==
    /\ command = "check" /\ pc = "counts"
    /\ UNCHANGED apivars
    /\ IF idx <= Len(check_flags)
       THEN /\ check_log' = Append(check_log,
                                   CountLine(check_flags[idx], files_by_flag[check_flags[idx]]))
            /\ idx' = idx + 1
            /\ UNCHANGED pc
       ELSE /\ idx' = 1
            /\ pc' = "files"
            /\ UNCHANGED check_log
    /\ UNCHANGED <<command, args, ret, counter, counter_log, cdvars, projvars,
                   flagvars, runvars, histvars, compvars, collvars, marker_files,
                   check_flags, files_by_flag>>

\* one iteration of the second "for flag in flags": the flag's file lists;
\* after the last one the call returns
CheckFiles ==
    /\ command = "check" /\ pc = "files"
    /\ UNCHANGED apivars
    /\ IF idx <= Len(check_flags)
       THEN /\ check_log' = check_log \o FileLines(check_flags, check_flags[idx],
                                                    files_by_flag[check_flags[idx]])
            /\ idx' = idx + 1
            /\ UNCHANGED <<pc, ret>>
       ELSE /\ ret' = "None" /\ pc' = "done"
            /\ UNCHANGED <<idx, check_log>>
    /\ UNCHANGED <<command, args, counter, counter_log, cdvars, projvars,
                   flagvars, runvars, histvars, compvars, collvars, marker_files,
                   check_flags, files_by_flag>>

NextCheck == CheckFetch \/ CheckCount \/ CheckFiles

CheckSpec == InitCheck /\ [][NextCheck]_vars

\* ---------------------------------------------------------------- HTTP API

\* bound: the POST requests made
MaxPosts == 3

\* the ids secrets.token_urlsafe(4) may draw: random, so one may come twice
JobIds == {"a", "b"}

\* Job() with status "queued"
JobMutStartsQueued(id) == [id |-> id, status |-> "queued", console_output |-> None]

\* Job(): the drawn id, status="in_progress", console_output=None
Job(id) == [id |-> id, status |-> "in_progress", console_output |-> None]

\* looper-serve with no request made yet
InitApi ==
    /\ command = "serve"
    /\ args = [dry_run |-> FALSE]
    /\ api_jobs = <<>>
    /\ job_heap = <<>>
    /\ tasks = <<>>
    /\ last_get = <<>>
    /\ pc = "serving"
    /\ ret = "none"
    /\ fs = {} /\ fs0 = {} /\ scripts_run = <<>> /\ asked = 0 /\ answer = "none"
    /\ preview_flag = TRUE /\ passes = <<>>
    /\ idx = 1
    /\ counter = [count |-> 0, total |-> 0]
    /\ counter_log = <<>>
    /\ piface_attr = [s \in Samples |-> <<>>]
    /\ input_size = [s \in Samples |-> 1]
    /\ samples_by_interface = SamplesByInterface
    /\ interfaces_by_sample = InterfacesBySample
    /\ RunFrameUnset
    /\ FlagFrameUnset
    /\ ComputeFrameUnset
    /\ CollateFrameUnset
    /\ CheckFrameUnset

ApiFrame ==
    UNCHANGED <<command, args, pc, idx, counter, counter_log, cdvars, projvars,
                flagvars, runvars, histvars, compvars, collvars, checkvars>>

\* POST /: job = Job(); jobs[job.id] = job; the background task is added;
\* the response is {"job_id": job.id}
MainEndpoint ==
    /\ command = "serve" /\ Len(job_heap) < MaxPosts
    /\ \E id \in JobIds :
          /\ job_heap' = Append(job_heap, Job(id))
          /\ api_jobs' = Put(api_jobs, id, Len(job_heap) + 1)
          /\ tasks' = Append(tasks, [job_id |-> id, pc |-> "queued"])
          /\ ret' = id
    /\ UNCHANGED last_get
    /\ ApiFrame

\* background_async up to run_looper's return: looper runs, and returns or
\* raises (an exception ends the task there)
BackgroundRunLooper ==
    /\ command = "serve"
    /\ \E t \in 1 .. Len(tasks), ok \in BOOLEAN :
          /\ tasks[t].pc = "queued"
          /\ tasks' = [tasks EXCEPT ![t].pc = IF ok THEN "ran" ELSE "raised"]
    /\ UNCHANGED <<api_jobs, job_heap, last_get, ret>>
    /\ ApiFrame

\* background_async: jobs[job_id].status = "completed"
BackgroundSetStatus ==
    /\ command = "serve"
    /\ \E t \in 1 .. Len(tasks) :
          /\ tasks[t].pc = "ran"
          /\ job_heap' = [job_heap EXCEPT ![api_jobs[tasks[t].job_id]].status = "completed"]
          /\ tasks' = [tasks EXCEPT ![t].pc = "status_set"]
    /\ UNCHANGED <<api_jobs, last_get, ret>>
    /\ ApiFrame

\* background_async: jobs[job_id].console_output = output_stream.getvalue()
\* (the output of task t is written t)
BackgroundSetOutput ==
    /\ command = "serve"
    /\ \E t \in 1 .. Len(tasks) :
          /\ tasks[t].pc = "status_set"
          /\ job_heap' = [job_heap EXCEPT
                             ![api_jobs[tasks[t].job_id]].console_output = Some(t)]
          /\ tasks' = [tasks EXCEPT ![t].pc = "done"]
    /\ UNCHANGED <<api_jobs, last_get, ret>>
    /\ ApiFrame

\* GET /status/{job_id}: return jobs[job_id] (KeyError for an id not stored)
GetStatus ==
    /\ command = "serve"
    /\ \E id \in JobIds :
          last_get' = IF id \in DOMAIN api_jobs
                      THEN <<job_heap[api_jobs[id]]>>
                      ELSE <<[id |-> id, status |-> "KeyError", console_output |-> None]>>
    /\ UNCHANGED <<api_jobs, job_heap, tasks, ret>>
    /\ ApiFrame

NextApi ==
    \/ MainEndpoint
    \/ BackgroundRunLooper
    \/ BackgroundSetStatus
    \/ BackgroundSetOutput
    \/ GetStatus

ApiSpec == InitApi /\ [][NextApi]_vars

\* the server's scheduling: a background task that was added is run, and a
\* task that can take its next statement takes it
ApiFairSpec ==
    /\ ApiSpec
    /\ WF_vars(BackgroundRunLooper)
    /\ WF_vars(BackgroundSetStatus)
    /\ WF_vars(BackgroundSetOutput)

\* ------------------------------------------------------------ properties

CleanOrDestroy == command \in {"clean", "destroy"}

\* Runner.__call__ returned (it raises nothing and returns None)
RunCompleted == command = "run" /\ pc = "done" /\ ret = "None"

DispatchFailed == \E k \in 1 .. Len(jobs) : jobs[k].status = "failed"

\* sample s's command went out in a job of conductor p (in a dry run: in a
\* job script the conductor counted as submitted)
Submitted(s, p) ==
    \E k \in 1 .. Len(jobs) :
        /\ jobs[k].piface = p
        /\ jobs[k].status \in {"submitted", "dry"}
        /\ s \in Range(jobs[k].cmds)

\* sample s is on record as not submitted for p: add_sample's reasons are in
\* failures, or s is in the conductor's failed samples and so in the summary
\* under the submission-failure reason
RecordedSkipped(s, p) ==
    \/ /\ <<s, p>> \in skipped
       /\ s \in DOMAIN failures
       /\ failures[s] # <<>>
    \/ /\ s \in conductors[p].failed_samples
       /\ SUBMISSION_FAILURE_MESSAGE \in DOMAIN report.samples_by_reason
       /\ s \in report.samples_by_reason[SUBMISSION_FAILURE_MESSAGE]

ExactlyOne(a, b) == (a /\ ~b) \/ (b /\ ~a)

RECURSIVE SumOver(_, _, _)
SumOver(f, keys, field) ==
    IF keys = {} THEN 0
    ELSE LET k == CHOOSE x \in keys : TRUE
         IN  f[k][field] + SumOver(f, keys \ {k}, field)

\* C1: Clean or Destroy, dry_run=false, no force, the user declines: the
\* driver returns 1, every filesystem entry that existed at the invocation is
\* still there and no cleanup script has run.
C1_DeclineLeavesEverything ==
    (CleanOrDestroy /\ ~args.dry_run /\ ~args.force_yes /\ answer = "no"
        /\ pc = "done")
    => (ret = "1" /\ fs = fs0 /\ scripts_run = <<>>)

\* C2: during the preview pass of Clean and Destroy, up to the confirmation
\* decision, the filesystem is as it was at the invocation and no cleanup
\* script has run, whatever dry_run and force_yes are.
C2_PreviewOnlyEnumerates ==
    (CleanOrDestroy /\ preview_flag /\ pc # "done")
    => (fs = fs0 /\ scripts_run = <<>>)

\* C3: with dry_run=true, Clean and Destroy remove nothing and run no cleanup
\* script, never prompt, never start the execution pass, and return 0.
C3_DryRunNeverMutates ==
    (CleanOrDestroy /\ args.dry_run)
    => /\ fs = fs0
       /\ scripts_run = <<>>
       /\ asked = 0
       /\ passes = <<TRUE>>
       /\ preview_flag
       /\ pc = "done" => ret = "0"

\* C3 witness: a dry-run Destroy with force, over an existing sample folder
\* and an existing summary, has returned.
C3_Witness ==
    /\ command = "destroy" /\ args.dry_run /\ args.force_yes /\ pc = "done"
    /\ Folder(1) \in fs0
    /\ FileForProject("summary.html") \in fs0

\* C4: a Run in which a dispatch failed is not aborted by it: it returns, with
\* every bounded sample processed, every conductor force-flushed and the
\* summary produced.
C4_SubmissionErrorNeverAborts ==
    (command = "run" /\ pc = "done" /\ DispatchFailed
        /\ ret \notin {"ValidationError"})
    => /\ ret = "None"
       /\ idx > upper_sample_bound
       /\ \A c \in DOMAIN conductors :
             \E k \in 1 .. Len(submits) : submits[k].piface = c /\ submits[k].force
       /\ report # <<>>

\* C5: a sample that fails validate_sample is recorded with a skip reason and
\* the Run goes on.
C5_ValidationFailureIsASkip ==
    (command = "run" /\ invalid # {})
    => /\ ret # "ValidationError"
       /\ \A s \in invalid : s \in DOMAIN failures /\ failures[s] # <<>>

\* C6 as stated: after a completed Run, for every sample of the project and
\* every interface applicable to it, exactly one of submitted / recorded as
\* skipped holds.
C6_EverySampleSettled ==
    RunCompleted
    => \A s \in Samples : \A p \in Range(GetSamplePiface(s)) :
          ExactlyOne(Submitted(s, p), RecordedSkipped(s, p))

\* C6 amended: after a completed Run, for every sample within the sample bound
\* (the first min(limit, n) samples, all of them without a limit) and every
\* interface applicable to it, exactly one of submitted / recorded as skipped
\* holds.
C6_EveryBoundedSampleSettled ==
    RunCompleted
    => \A s \in 1 .. upper_sample_bound : \A p \in Range(GetSamplePiface(s)) :
          ExactlyOne(Submitted(s, p), RecordedSkipped(s, p))

\* C6 witness: a completed Run with a limit, in which one pairing was skipped,
\* one was in a failed dispatch and one was submitted.
C6_Witness ==
    /\ RunCompleted
    /\ ~IsNone(args.limit)
    /\ skipped # {}
    /\ DispatchFailed
    /\ \E k \in 1 .. Len(jobs) : jobs[k].status = "submitted"

\* C7: add_sample is called at most once per (sample, interface file) pair,
\* there is one conductor per distinct interface file that loads, and no
\* command of a flushed batch is in a later batch of the same conductor (nor
\* twice in its own).
C7_NoDoubleSubmission ==
    command = "run"
    => /\ \A i, j \in 1 .. Len(calls) :
             (calls[i].sample = calls[j].sample /\ calls[i].piface = calls[j].piface)
             => i = j
       /\ pc \in {"sample", "flush"}
          => /\ DOMAIN conductors =
                   {src \in ValidSources :
                       \E s \in Samples : src \in Range(piface_attr[s])}
             /\ Range(conductor_keys) = DOMAIN conductors
             /\ Len(conductor_keys) = Cardinality(DOMAIN conductors)
       /\ \A i, j \in 1 .. Len(jobs) :
             (i < j /\ jobs[i].piface = jobs[j].piface)
             => Range(jobs[i].cmds) \cap Range(jobs[j].cmds) = {}
       /\ \A i \in 1 .. Len(jobs) :
             Cardinality(Range(jobs[i].cmds)) = Len(jobs[i].cmds)

\* C7 witness: a sample that lists an interface twice was offered to both of
\* its conductors, and one conductor has flushed two batches.
C7_Witness ==
    /\ command = "run"
    /\ \E s \in Samples :
          /\ piface_attr[s] = <<"p2", "bad", "p2", "p1">>
          /\ \E i, j \in 1 .. Len(calls) :
                calls[i].sample = s /\ calls[j].sample = s /\ i # j
    /\ \E i, j \in 1 .. Len(jobs) : i < j /\ jobs[i].piface = jobs[j].piface

\* C8: when a Run returns, every conductor was force-flushed exactly once,
\* after the last add_sample, its batch is empty, and the reported totals are
\* the sums of the conductors' counters.
C8_ForcedFlushAndTotals ==
    RunCompleted
    => /\ \A c \in DOMAIN conductors :
             /\ conductors[c].pool = <<>>
             /\ Cardinality({k \in 1 .. Len(submits) :
                                submits[k].piface = c /\ submits[k].force}) = 1
             /\ \A k \in 1 .. Len(submits) :
                   submits[k].piface = c => submits[k].ncalls = Len(calls)
       /\ report.jobs = SumOver(conductors, DOMAIN conductors, "num_job_submissions")
       /\ report.commands =
             SumOver(conductors, DOMAIN conductors, "num_cmd_submissions")

\* C8 witness: a completed Run over two conductors whose forced flush sent out
\* a batch and which reports two commands or more.
C8_Witness ==
    /\ RunCompleted
    /\ Cardinality(DOMAIN conductors) = 2
    /\ \E k \in 1 .. Len(jobs) : jobs[k].forced /\ jobs[k].status = "submitted"
    /\ report.commands >= 2

\* the thresholds the options configure are reached by a batch of this count
\* and size
ThresholdReached(count, size) ==
    \/ ~IsNone(args.lumpn) /\ count >= Val(args.lumpn)
    \/ ~IsNone(args.lump) /\ size >= Val(args.lump)

C9_Step ==
    /\ Len(calls') = Len(calls) + 1
       => LET call == calls'[Len(calls')]
              c    == conductors[call.piface]
          IN  IF <<call.sample, call.piface>> \in skipped'
              THEN jobs' = jobs /\ conductors' = conductors
              ELSE (Len(jobs') = Len(jobs) + 1)
                   <=> ThresholdReached(Len(c.pool) + 1,
                                        c.curr_size + input_size[call.sample])
    /\ (Len(calls') = Len(calls) /\ Len(submits') = Len(submits)) => jobs' = jobs
    /\ (IsNone(args.lumpn) /\ IsNone(args.lump) /\ jobs' # jobs)
       => /\ Len(submits') = Len(submits) + 1
          /\ submits'[Len(submits')].force

\* C9: an add_sample that appends flushes the batch if and only if, after the
\* append, the count reaches max_cmds or the size reaches max_size (each when
\* configured); nothing but add_sample and submit flushes; with neither
\* threshold configured only submit(force=true) flushes.
C9_FlushIffThreshold == [][C9_Step]_vars

\* C9 witness: with no count threshold, add_sample has flushed a batch of two
\* commands on size, and a conductor holds a batch below the thresholds.
C9_Witness ==
    /\ command = "run"
    /\ IsNone(args.lumpn)
    /\ \E k \in 1 .. Len(jobs) : ~jobs[k].forced /\ Len(jobs[k].cmds) = 2
    /\ \E c \in DOMAIN conductors : conductors[c].pool # <<>>

C10_Step ==
    Len(submits') = Len(submits) + 1
    => LET call == submits'[Len(submits')]
           c    == conductors[call.piface]
           c2   == conductors'[call.piface]
       IN  /\ (call.force /\ c.pool # <<>>)
              => (c2.pool = <<>> /\ c2.curr_size = 0)
           /\ (~call.force
               /\ (IsNone(c.max_cmds) \/ Len(c.pool) < Val(c.max_cmds))
               /\ (IsNone(c.max_size) \/ c.curr_size < Val(c.max_size)))
              => (conductors' = conductors /\ jobs' = jobs)

\* C10: submit(force=true) on a non-empty batch leaves the batch empty, also
\* when the dispatch fails; submit(force=false) on a batch below every
\* configured threshold changes neither the batch nor the counters.
C10_SubmitForceAndNoForce == [][C10_Step]_vars

\* C10 witness: an unforced submit found a held batch and flushed nothing, and
\* a forced submit's dispatch failed and the batch is empty.
C10_Witness ==
    /\ command = "conductor"
    /\ \E i \in 1 .. Len(submits) : ~submits[i].force /\ submits[i].held > 0
    /\ Len(jobs) = 1
    /\ jobs[1].forced /\ jobs[1].status = "failed"
    /\ conductors[jobs[1].piface].pool = <<>>

\* an add_sample call found a "completed" flag while flags are not ignored
BlockedCall(call) == "completed" \in call.flags /\ ~args.ignore_flags

C11_Step ==
    Len(calls') = Len(calls) + 1
    => LET call == calls'[Len(calls')]
       IN  BlockedCall(call)
           => /\ <<call.sample, call.piface>> \in skipped'
              /\ conductors' = conductors
              /\ jobs' = jobs

C11_Never ==
    \A k \in 1 .. Len(calls) :
        BlockedCall(calls[k])
        => /\ calls[k].sample \notin Range(conductors[calls[k].piface].pool)
           /\ \A j \in 1 .. Len(jobs) :
                 jobs[j].piface = calls[k].piface
                 => calls[k].sample \notin Range(jobs[j].cmds)
           /\ pc = "done" /\ ret = "None"
              => /\ calls[k].sample \in DOMAIN failures
                 /\ FlagReason \in Range(failures[calls[k].sample])

\* C11: with ignore_flags=false, add_sample of a sample that has a "completed"
\* flag for the conductor's pipeline returns reasons (the driver collects
\* them) and changes nothing of the conductor: not the batch, its count and
\* size, nor the counters, and no job goes out; the sample is in no batch of
\* that conductor during the run and ends up in the failures with the reason.
C11_FlaggedSampleIsSkipped == [][C11_Step]_vars /\ []C11_Never

\* C11 witness: a Run has returned in which a flagged sample was offered to a
\* conductor that held a batch, and another sample of that conductor went out
\* in a job.
C11_Witness ==
    /\ RunCompleted
    /\ ~args.ignore_flags
    /\ \E k \in 1 .. Len(calls) :
          /\ "completed" \in calls[k].flags
          /\ submits # <<>>
          /\ \E j \in 1 .. Len(submits) :
                submits[j].piface = calls[k].piface /\ submits[j].held > 0
          /\ \E j \in 1 .. Len(jobs) : jobs[j].piface = calls[k].piface

\* the job went out: its dispatch succeeded, or the run is dry and the
\* conductor counted it
Flushed(job) == job.status \in {"submitted", "dry"}

\* the jobs of conductor p that went out
FlushedJobs(p) == SelectSeq(jobs, LAMBDA job : job.piface = p /\ Flushed(job))

\* the number of commands in a list of jobs
RECURSIVE SumCmds(_)
SumCmds(js) == IF js = <<>> THEN 0 ELSE Len(Head(js).cmds) + SumCmds(Tail(js))

C12_Step ==
    (Len(jobs') = Len(jobs) + 1 /\ Flushed(jobs'[Len(jobs')]))
    => LET job == jobs'[Len(jobs')]
           c   == conductors[job.piface]
           c2  == conductors'[job.piface]
       IN  /\ Len(job.cmds) >= 1
           /\ c2.num_job_submissions = c.num_job_submissions + 1
           /\ c2.num_cmd_submissions = c.num_cmd_submissions + Len(job.cmds)
           /\ c2.pool = <<>> /\ c2.curr_size = 0
           /\ \A q \in DOMAIN conductors \ {job.piface} :
                 conductors'[q] = conductors[q]

C12_Totals ==
    \A p \in DOMAIN conductors :
        /\ conductors[p].num_cmd_submissions = SumCmds(FlushedJobs(p))
        /\ conductors[p].num_job_submissions = Len(FlushedJobs(p))
        /\ conductors[p].num_job_submissions <= conductors[p].num_cmd_submissions

\* C12: a flush of k >= 1 commands that succeeds adds 1 to num_job_submissions
\* and k to num_cmd_submissions of its conductor and empties the batch; so at
\* any time num_cmd_submissions is the number of commands in the batches that
\* went out, num_job_submissions their number, and the second is at most the
\* first.
C12_CountersFollowFlushes == [][C12_Step]_vars /\ []C12_Totals

\* C12 witness: a conductor has sent out two batches, one of them of two
\* commands, and a dispatch of the other conductor failed.
C12_Witness ==
    /\ command = "conductor"
    /\ \E p \in DOMAIN conductors :
          /\ conductors[p].num_job_submissions = 2
          /\ conductors[p].num_cmd_submissions = 3
    /\ DispatchFailed

\* the Run has one pipeline, a count threshold and no size threshold, no
\* dispatch failed and no flag blocked a sample
LumpedRun ==
    /\ RunCompleted
    /\ ~IsNone(args.lumpn) /\ IsNone(args.lump)
    /\ Cardinality(DOMAIN conductors) = 1
    /\ ~DispatchFailed
    /\ \A k \in 1 .. Len(calls) : ~BlockedCall(calls[k])

\* the samples of pipeline p among the first min(limit, n) of the project
EligibleSamples(p) ==
    {s \in Samples :
        /\ p \in Range(piface_attr[s])
        /\ IsNone(args.limit) \/ s <= Val(args.limit)}

C14_Step ==
    (Len(jobs') = Len(jobs) + 1 /\ jobs'[Len(jobs')].status = "failed")
    => LET job == jobs'[Len(jobs')]
           c   == conductors[job.piface]
           c2  == conductors'[job.piface]
       IN  /\ c2.num_job_submissions = c.num_job_submissions
           /\ c2.num_cmd_submissions = c.num_cmd_submissions
           /\ Range(job.cmds) \subseteq c2.failed_samples

C14_Listed ==
    (command = "run" /\ pc = "done" /\ ret # "ValidationError")
    => \A k \in 1 .. Len(jobs) :
          jobs[k].status = "failed"
          => /\ Range(jobs[k].cmds) \subseteq conductors[jobs[k].piface].failed_samples
             /\ report # <<>>
             /\ SUBMISSION_FAILURE_MESSAGE \in DOMAIN report.samples_by_reason
             /\ Range(jobs[k].cmds)
                   \subseteq report.samples_by_reason[SUBMISSION_FAILURE_MESSAGE]

\* C14: a failed dispatch leaves num_job_submissions and num_cmd_submissions
\* of its conductor as they were and puts the samples of the batch into the
\* conductor's failed samples; when the Run is over (not cut short by a sample
\* that fails validation) the summary lists each of them under the
\* submission-failure reason.
C14_FailedDispatchIsCountedOutAndListed == [][C14_Step]_vars /\ []C14_Listed

\* conductor c as it would be in a run that is not dry
NotDry(c) == [c EXCEPT !.dry_run = FALSE]

\* what is compared between the dry run and the other: the batch with its
\* size and the two counters
BatchAndCounts(c) ==
    <<c.pool, c.curr_size, c.num_job_submissions, c.num_cmd_submissions>>

C15_Step ==
    args.dry_run
    => /\ Len(calls') = Len(calls) + 1
          => LET call == calls'[Len(calls')]
                 r    == AddSample(NotDry(conductors[call.piface]), call.sample,
                                   call.flags, input_size[call.sample], TRUE)
             IN  /\ BatchAndCounts(conductors'[call.piface]) = BatchAndCounts(r.cnd)
                 /\ r.reasons # <<>> => <<call.sample, call.piface>> \in skipped'
                 /\ Len(jobs') - Len(jobs) = Len(r.scripts)
       /\ Len(submits') = Len(submits) + 1
          => LET call == submits'[Len(submits')]
                 r    == Submit(NotDry(conductors[call.piface]), call.force, TRUE)
             IN  /\ BatchAndCounts(conductors'[call.piface]) = BatchAndCounts(r.cnd)
                 /\ Len(jobs') - Len(jobs) = Len(r.scripts)

C15_NoDispatch ==
    args.dry_run
    => /\ \A k \in 1 .. Len(jobs) : jobs[k].status = "dry"
       /\ \A p \in DOMAIN conductors : conductors[p].failed_samples = {}

\* C15: with dry_run=true no job script is handed to the submission command
\* (none is submitted, none fails), and every add_sample and submit leaves the
\* batch, its size and the two counters exactly as the same call does in a
\* run that is not dry and whose dispatch succeeds, with the same skip
\* decision and the same number of job scripts written.
C15_DryRunBatchesAndCountsAlike == [][C15_Step]_vars /\ []C15_NoDispatch

\* C15 witness: in a dry run one batch was flushed on a threshold and one
\* by force, and a flagged sample was skipped.
C15_Witness ==
    /\ command = "conductor"
    /\ args.dry_run
    /\ \E i, j \in 1 .. Len(jobs) : jobs[i].forced /\ ~jobs[j].forced
    /\ skipped # {}

\* the sum of the input sizes of a list of samples
RECURSIVE SumSizes(_)
SumSizes(pool) ==
    IF pool = <<>> THEN 0 ELSE input_size[Head(pool)] + SumSizes(Tail(pool))

\* a batch of conductor p was flushed in this step (sent out, or dropped
\* after a failed dispatch)
FlushStep(p) == Len(jobs') = Len(jobs) + 1 /\ jobs'[Len(jobs')].piface = p

C16_Step ==
    \A p \in DOMAIN conductors :
        ~FlushStep(p)
        => /\ Len(conductors'[p].pool) >= Len(conductors[p].pool)
           /\ conductors'[p].curr_size >= conductors[p].curr_size

C16_NonNegative ==
    \A p \in DOMAIN conductors :
        /\ Len(conductors[p].pool) >= 0
        /\ conductors[p].curr_size >= 0
        /\ conductors[p].curr_size = SumSizes(conductors[p].pool)
        /\ (conductors[p].pool = <<>>) <=> (conductors[p].curr_size = 0)

\* C16: the batch of a conductor has a count and a size that are never
\* negative, the size is that of the commands held (zero exactly for the
\* empty batch), and from one flush to the next neither the count nor the
\* size goes down.
C16_BatchGrowsBetweenFlushes == [][C16_Step]_vars /\ []C16_NonNegative

\* C16 witness: a conductor that has flushed a batch holds a new one of two
\* commands.
C16_Witness ==
    /\ command = "conductor"
    /\ \E p \in DOMAIN conductors :
          /\ Len(conductors[p].pool) = 2
          /\ conductors[p].curr_size = 3
          /\ \E k \in 1 .. Len(jobs) : jobs[k].piface = p

\* the flags of the vocabulary whose file for the pipeline is in the directory
PresentFlags ==
    {f \in Range(FLAGS) : FlagPath(args.pipeline_name, f) \in sample_dir.files}

Statuses ==
    {"Missing", "Completed", "Failed", "Running", "Waiting", "Multiple", "Unknown"}

\* C17: the status in a sample's row is one of Missing, Completed, Failed,
\* Running, Waiting, Multiple, Unknown: Missing for no flag file of the
\* pipeline, Multiple for two or more, and for a single one the status the
\* table maps the flag to, Unknown if it maps it to none.
C17_OneStatusPerFlagSet ==
    (command = "status_table" /\ pc = "done" /\ sample_dir.exists)
    => /\ flag \in Statuses
       /\ PresentFlags = {} <=> flag = "Missing"
       /\ Cardinality(PresentFlags) >= 2 <=> flag = "Multiple"
       /\ \A f \in PresentFlags :
             PresentFlags = {f}
             => flag = (IF f \in DOMAIN TABLE_APPEARANCE_BY_FLAG
                        THEN TABLE_APPEARANCE_BY_FLAG[f] ELSE "Unknown")
       /\ PresentFlags = {"completed"} => flag = "Completed"
       /\ PresentFlags = {"failed"} => flag = "Failed"
       /\ PresentFlags = {"running"} => flag = "Running"
       /\ PresentFlags = {"waiting"} => flag = "Waiting"

\* C17 witness: a row made for a directory that holds one flag of the
\* pipeline, two flags of another pipeline and a file outside the vocabulary.
C17_Witness ==
    /\ command = "status_table" /\ pc = "done"
    /\ args.pipeline_name = "pl1"
    /\ PresentFlags = {"failed"}
    /\ FlagPath("pl1", "other") \in sample_dir.files
    /\ FlagPath("pl2", "completed") \in sample_dir.files
    /\ FlagPath("pl2", "running") \in sample_dir.files
    /\ flag = "Failed"

C18_Filesystem == UNCHANGED sample_dir

C18_Result ==
    (command = "get_flags" /\ pc = "done")
    => IF sample_dir.exists
       THEN /\ ret = "list"
            /\ Range(existing_flags) = PresentFlags
            /\ Len(existing_flags) = Cardinality(PresentFlags)
       ELSE /\ ret = "NotFoundError"
            /\ existing_flags = <<>>

\* C18: _get_flags returns exactly the flags of the vocabulary whose file
\* "<pipeline_name>_<flag>.flag" is in the directory, each once, whatever
\* files of other pipelines lie there, changes nothing in the directory, and
\* for a directory that does not exist fails with NotFoundError and returns
\* nothing.
C18_FlagsReadOrNotFound == [][C18_Filesystem]_vars /\ []C18_Result

\* the (sample, reason) pairs the Run recorded: a sample without interfaces,
\* and the reasons add_sample returned for a pairing
RecordedPairs ==
    {<<s, NoPifaceReason>> : s \in {x \in 1 .. upper_sample_bound :
                                       GetSamplePiface(x) = <<>>}}
    \cup {<<pair[1], FlagReason>> : pair \in skipped}

\* C19: in the summary of a Run that returned, every recorded (sample,
\* reason) pair has its sample in the set of that reason (a set: once), every
\* pair of the failures is a recorded one, and every sample in the set of a
\* reason other than the submission-failure one has that reason on record.
C19_SummaryInvertsFailures ==
    RunCompleted
    => LET by_reason == report.samples_by_reason
       IN  /\ \A pair \in RecordedPairs :
                 /\ pair[1] \in DOMAIN failures
                 /\ pair[2] \in Range(failures[pair[1]])
           /\ \A s \in DOMAIN failures : \A reason \in Range(failures[s]) :
                 /\ <<s, reason>> \in RecordedPairs
                 /\ reason \in DOMAIN by_reason
                 /\ s \in by_reason[reason]
           /\ \A reason \in DOMAIN by_reason \ {SUBMISSION_FAILURE_MESSAGE} :
                 /\ by_reason[reason] # {}
                 /\ \A s \in by_reason[reason] :
                       s \in DOMAIN failures /\ reason \in Range(failures[s])

\* C19 witness: a summary in which one reason has two samples, one of them
\* also under the submission-failure reason, and a sample has a reason twice.
C19_Witness ==
    /\ RunCompleted
    /\ FlagReason \in DOMAIN report.samples_by_reason
    /\ Cardinality(report.samples_by_reason[FlagReason]) = 2
    /\ SUBMISSION_FAILURE_MESSAGE \in DOMAIN report.samples_by_reason
    /\ report.samples_by_reason[SUBMISSION_FAILURE_MESSAGE]
          \subseteq report.samples_by_reason[FlagReason]
    /\ \E s \in DOMAIN failures : Len(failures[s]) = 2

\* the position of the last reset in the first k entries of the log (0: none)
RECURSIVE LastReset(_)
LastReset(k) ==
    IF k = 0 THEN 0
    ELSE IF counter_log[k].op = "reset" THEN k ELSE LastReset(k - 1)

C20_Step ==
    /\ Len(counter_log') = Len(counter_log) + 1
       => LET call == counter_log'[Len(counter_log')]
          IN  /\ counter'.total = counter.total
              /\ call.op = "show"
                 => /\ counter'.count = counter.count + 1
                    /\ call.text = <<counter'.count, counter.total>>
              /\ call.op = "reset" => counter'.count = 0
    /\ Len(counter_log') = Len(counter_log) => counter'.count = counter.count

C20_Counted ==
    /\ counter.count = Len(counter_log) - LastReset(Len(counter_log))
    /\ \A k \in 1 .. Len(counter_log) :
          counter_log[k].op = "show"
          => counter_log[k].text[1] = k - LastReset(k)

\* C20: show adds exactly 1 to the count, leaves the total and returns the
\* new count with the total; reset makes the count 0 and leaves the total;
\* nothing else changes the count. So the i-th show after a reset, or after
\* the construction, returns i.
C20_ShowCountsFromReset == [][C20_Step]_vars /\ []C20_Counted

\* C20 witness: after a reset the counter has shown 1 and then 2, with the
\* total it was constructed with.
C20_Witness ==
    \E k \in 1 .. Len(counter_log) :
        /\ counter_log[k].op = "reset"
        /\ k + 2 <= Len(counter_log)
        /\ counter_log[k + 1].text = <<1, NumSamples>>
        /\ counter_log[k + 2].text = <<2, NumSamples>>
        /\ counter_log[k - 1].op = "show"

\* the number of "=" characters of a string
CountEq(s) == Cardinality({i \in 1 .. Len(s) : s[i] = "="})

\* the tokens of the itemized specification that are not one key=value
OffendingTokens == {compute[i] : i \in {j \in 1 .. Len(compute) : CountEq(compute[j]) # 1}}

\* no itemized specification was given: the empty string, or the empty list
EmptyComputeSpec ==
    IF command = "run" THEN JoinComma(compute) = <<>> ELSE compute = <<>>

\* _proc_resources_spec has returned or raised
SpecParsed == pc \in {"runner", "done"}

\* the value the specification gives a key: that of the last token on the key
ItemizedKeys == {SplitEq(compute[i])[1] : i \in 1 .. Len(compute)}
ItemizedValue(key) ==
    LET last == CHOOSE i \in 1 .. Len(compute) :
                    /\ SplitEq(compute[i])[1] = key
                    /\ \A j \in (i + 1) .. Len(compute) : SplitEq(compute[j])[1] # key
    IN  SplitEq(compute[last])[2]

\* C21: once the itemized specification is parsed: with a token that does
\* not hold exactly one "=", the parse fails with one ValueError whose message
\* quotes every such token and the example format, and nothing of the
\* specification reaches the run; with well-formed tokens only, the result
\* maps each key to its value; with no specification the result holds nothing
\* of it (it is empty where there is no settings file).
C21_BadTokensAreListedAndNothingApplied ==
    SpecParsed
    => IF EmptyComputeSpec
       THEN /\ ret # "ValueError"
            /\ pc = "done" => compute_kwargs = SettingsData(settings)
       ELSE IF OffendingTokens # {}
       THEN /\ ret = "ValueError" /\ pc = "done"
            /\ OffendingTokens \subseteq Range(error.tokens)
            /\ error.example = EXAMPLE_COMPUTE_SPEC_FMT
            /\ compute_kwargs = <<>>
            /\ comp_vars = <<>>
       ELSE /\ ret # "ValueError"
            /\ \A key \in ItemizedKeys :
                  /\ key \in DOMAIN compute_kwargs
                  /\ compute_kwargs[key] = ItemizedValue(key)

\* the keys the itemized specification defines (none when there is no specification)
AppliedItemizedKeys == IF EmptyComputeSpec THEN {} ELSE ItemizedKeys

\* the Run has built its conductors' compute variables
CompVarsBuilt == pc = "done" /\ ret = "None"

CollatorConstructed == command = "runp" /\ pc # "construct"

\* C23: for a project with no project-level pipeline interface, constructing
\* the Collate driver fails with MisconfigurationException, no conductor
\* having been created and no submission attempted.
C23_NoProjectPifacesIsMisconfiguration ==
    (CollatorConstructed /\ ProjectPifaces = <<>>)
    => /\ ret = "MisconfigurationException"
       /\ conductors = <<>>
       /\ submits = <<>>
       /\ jobs = <<>>

\* the number of samples a Run is to process under its limit
SampleBound ==
    IF IsNone(args.limit) THEN NumSamples
    ELSE IF Val(args.limit) < NumSamples THEN Val(args.limit) ELSE NumSamples

\* the samples the Run has taken up: recorded, validated or found invalid
TakenUp == DOMAIN failures \cup processed_samples \cup invalid

\* C25: a Run takes up only the first min(limit, number of samples) samples
\* (all of them without a limit) and, once it has returned, has taken up each
\* of these; no add_sample call is ever made for a sample beyond the bound;
\* with a negative limit the Run ends in ValueError with no conductor
\* created, no add_sample and no submit call made and no job written.
C25_LimitBoundsTheSamples ==
    command = "run"
    => /\ TakenUp \subseteq 1 .. SampleBound
       /\ \A k \in 1 .. Len(calls) : calls[k].sample \in 1 .. SampleBound
       /\ RunCompleted => 1 .. SampleBound \subseteq TakenUp
       /\ (~IsNone(args.limit) /\ Val(args.limit) < 0 /\ pc # "setup")
          => /\ ret = "ValueError"
             /\ conductors = <<>>
             /\ calls = <<>> /\ submits = <<>> /\ jobs = <<>>

\* a Run with a limit below the number of samples has returned, having
\* handed its first sample to a conductor while the sample past the limit has
\* an interface too
C25_Witness ==
    /\ RunCompleted
    /\ args.limit = Some(1)
    /\ GetSamplePiface(2) # <<>>
    /\ \E k \in 1 .. Len(calls) : calls[k].sample = 1

\* the sample names no pipeline interface source that loads
NoApplicablePiface(s) == \A src \in Range(piface_attr[s]) : src \notin ValidSources

\* a step that records a sample without interfaces goes on to the next sample
C26_Step ==
    \A s \in Samples :
        (NoApplicablePiface(s) /\ s \notin DOMAIN failures /\ s \in DOMAIN failures')
        => pc' = "sample" /\ ret' = "none" /\ idx' = s + 1

\* a sample without interfaces that the loop has passed is on record with
\* the one reason, and is at no time validated or handed to add_sample
C26_Recorded ==
    command = "run"
    => \A s \in Samples :
          NoApplicablePiface(s)
          => /\ (s < idx /\ s <= upper_sample_bound)
                => (s \in DOMAIN failures
                    /\ failures[s] = <<"No pipeline interfaces defined">>)
             /\ s \notin processed_samples \cup invalid
             /\ \A k \in 1 .. Len(calls) : calls[k].sample # s

\* C26: in a Run, a sample with no applicable pipeline interface is recorded
\* in the failures with the reason "No pipeline interfaces defined", is never
\* validated and never handed to add_sample, and the Run goes on with the
\* next sample.
C26_SampleWithoutPifaceIsRecordedAndPassed == [][C26_Step]_vars /\ []C26_Recorded

\* a Run has returned that recorded its first sample for want of an
\* interface and handed its second sample to a conductor
C26_Witness ==
    /\ RunCompleted
    /\ NoApplicablePiface(1)
    /\ 1 \in DOMAIN failures
    /\ \E k \in 1 .. Len(calls) : calls[k].sample = 2

\* a Clean or a Destroy that is no dry run and has gone ahead: the force
\* option was set or the user said yes
WentAhead ==
    /\ command \in {"clean", "destroy"}
    /\ ~args.dry_run
    /\ args.force_yes \/ answer = "yes"

\* C28: in a Clean or Destroy that is no dry run: with the force option no
\* confirmation is ever asked for; with the force option or the user's yes
\* the driver, once returned, has made exactly one execution pass
\* (preview_flag false) after the preview pass and returned 0, and after a
\* Destroy no sample folder and no summary artifact is left.
C28_ForceOrYesExecutesOnce ==
    (command \in {"clean", "destroy"} /\ ~args.dry_run)
    => /\ args.force_yes => asked = 0
       /\ (WentAhead /\ pc = "done")
          => /\ passes = <<TRUE, FALSE>>
             /\ ret = "0"
             /\ command = "destroy"
                => /\ \A s \in Samples : Folder(s) \notin fs
                   /\ \A k \in 1 .. Len(SummaryPaths) : SummaryPaths[k] \notin fs

\* a Destroy the user confirmed has returned, for a project that had a
\* sample folder and a summary artifact
C28_Witness ==
    /\ command = "destroy" /\ pc = "done"
    /\ ~args.dry_run /\ ~args.force_yes /\ answer = "yes"
    /\ Folder(1) \in fs0
    /\ SummaryPaths[1] \in fs0

\* the Check has returned
CheckDone == command = "check" /\ pc = "done"

\* the flags the Check was asked for (all of the vocabulary when none is named)
AskedFlags == IF IsNone(args.flags) THEN Range(FLAGS) ELSE Range(Val(args.flags))

\* the file lists in the log
LoggedLists == {k \in 1 .. Len(check_log) : check_log[k].kind = "files"}

C27_ReadOnly == marker_files' = marker_files

\* once returned, the log holds for every flag asked for a count line with
\* the number of its marker files
C27_Counts ==
    CheckDone
    => \A f \in AskedFlags :
          \E k \in 1 .. Len(check_log) :
              /\ check_log[k].kind = "count"
              /\ check_log[k].flag = f
              /\ check_log[k].count = marker_files[f]

CalledOn ==
    IF Len(calls') > Len(calls) THEN {calls'[Len(calls')].piface}
    ELSE IF Len(submits') > Len(submits) THEN {submits'[Len(submits')].piface}
    ELSE {}

\* a call leaves every conductor it was not made on as it was: batch, size,
\* counters and failed samples
C29_Step ==
    command = "conductor"
    => \A q \in DOMAIN conductors : q \notin CalledOn => conductors'[q] = conductors[q]

\* the conductors after add_sample(s) on the conductor of src
AddOn(cs, src, s, flags, dispatch_ok) ==
    OnConductor(cs, src, AddSample(cs[src], s, flags, input_size[s], dispatch_ok).cnd)

\* from the conductors as they stand, the add_sample calls for the next two
\* samples, made on two different conductors, leave the same conductors
\* behind in either order
C29_Commute ==
    command = "conductor"
    => LET s1 == (Len(calls) % NumSamples) + 1
           s2 == ((Len(calls) + 1) % NumSamples) + 1
       IN  \A f1 \in FlagChoices, f2 \in FlagChoices, ok1 \in BOOLEAN, ok2 \in BOOLEAN :
              AddOn(AddOn(conductors, "p1", s1, f1, ok1), "p2", s2, f2, ok2)
              = AddOn(AddOn(conductors, "p2", s2, f2, ok2), "p1", s1, f1, ok1)

C30_Statuses ==
    command = "serve"
    => /\ \A n \in 1 .. Len(job_heap) :
             job_heap[n].status \in {"in_progress", "completed"}
       /\ \A k \in 1 .. Len(last_get) :
             last_get[k].status \in {"in_progress", "completed", "KeyError"}

\* a step leaves a completed job completed, and a job it creates is
\* in_progress, stored under the id the POST answers with
C30_Step ==
    command = "serve"
    => /\ \A n \in 1 .. Len(job_heap) :
             job_heap[n].status = "completed" => job_heap'[n].status = "completed"
       /\ \A n \in (Len(job_heap) + 1) .. Len(job_heap') :
             /\ job_heap'[n].status = "in_progress"
             /\ ret' = job_heap'[n].id
             /\ api_jobs'[ret'] = n

\* C30: the status of every job of the HTTP API is at all times
\* "in_progress" or "completed"; a job is created in_progress by the POST
\* that answers with its id; a job's status changes from in_progress to
\* completed only, a completed job staying completed.
C30_InProgressThenCompleted == [][C30_Step]_vars /\ []C30_Statuses

\* one job is completed with its output stored while a later one is still
\* in progress
C30_Witness ==
    /\ command = "serve"
    /\ Len(job_heap) >= 2
    /\ job_heap[1].status = "completed" /\ job_heap[1].console_output # None
    /\ job_heap[2].status = "in_progress"
    /\ job_heap[1].id # job_heap[2].id

\* no two Job objects created have the same id
C31_IdsDiffer ==
    command = "serve"
    => \A n \in 1 .. Len(job_heap) : \A k \in 1 .. Len(job_heap) :
          n # k => job_heap[n].id # job_heap[k].id

\* a step replaces no entry of the jobs dict
C31_NoOverwrite ==
    command = "serve"
    => \A id \in DOMAIN api_jobs : api_jobs'[id] = api_jobs[id]

\* a GET that finds a job answers with the first job created under the id
C31_GetReportsTheJob ==
    command = "serve"
    => \A k \in 1 .. Len(last_get) :
          last_get[k].status # "KeyError"
          => \E n \in 1 .. Len(job_heap) :
                /\ job_heap[n].id = last_get[k].id
                /\ \A h \in 1 .. (n - 1) : job_heap[h].id # last_get[k].id
                /\ last_get[k].console_output \in {None, Some(n)}

\* C31: the ids the HTTP API hands out are unique among the jobs created: a
\* POST never stores its job under an id that is already a key of the jobs
\* dict, so no job record is overwritten and GET /status/{id} reports the job
\* created with that id.
C31_JobIdsAreUnique ==
    /\ []C31_IdsDiffer
    /\ [][C31_NoOverwrite]_vars
    /\ []C31_GetReportsTheJob

\* a submit call on a conductor whose batch is empty writes no job and leaves
\* every conductor as it was
C32_Step ==
    (command = "run" /\ Len(submits') > Len(submits)
        /\ submits'[Len(submits')].held = 0)
    => /\ conductors' = conductors
       /\ jobs' = jobs

\* from the conductors as they stand, a second forced submit directly after
\* a first writes nothing, raises nothing and leaves the conductor as the
\* first left it
C32_Idempotent ==
    command = "run"
    => \A src \in DOMAIN conductors : \A ok1 \in BOOLEAN, ok2 \in BOOLEAN :
          LET first  == Submit(conductors[src], TRUE, ok1)
              second == Submit(first.cnd, TRUE, ok2)
          IN  /\ second.cnd = first.cnd
              /\ second.scripts = <<>>
              /\ ~second.raised

\* no add_sample call of the Run took its sample into a batch
NoSampleAccepted ==
    \A k \in 1 .. Len(calls) : <<calls[k].sample, calls[k].piface>> \in skipped

\* C32: a submit on a conductor with an empty batch dispatches nothing and
\* leaves the counters and the batch unchanged; a second forced submit
\* directly after a first changes nothing; a Run in which no sample is
\* accepted reports 0 jobs and 0 commands.
C32_EmptySubmitIsNoOp ==
    /\ [][C32_Step]_vars
    /\ []C32_Idempotent
    /\ []((RunCompleted /\ NoSampleAccepted)
          => (report.jobs = 0 /\ report.commands = 0))

\* a Run has returned in which every add_sample call was refused and the
\* end-of-run submit found the conductor's batch empty
C32_Witness ==
    /\ RunCompleted
    /\ calls # <<>>
    /\ NoSampleAccepted
    /\ \E k \in 1 .. Len(submits) : submits[k].held = 0
    /\ report.jobs = 0 /\ report.commands = 0

\* C33: no GET /status/{id}, whenever it runs against the background task,
\* answers with a job whose status is "completed" while its console_output
\* is still None.
C33_CompletedHasOutput ==
    command = "serve"
    => \A k \in 1 .. Len(last_get) :
          last_get[k].status = "completed" => last_get[k].console_output # None

\* C34: every job accepted by POST / reaches the status "completed" once its
\* background task is run, whether the looper run in the task returns or
\* ends with an error.
C34_EveryJobCompletes ==
    \A n \in 1 .. MaxPosts :
        (command = "serve" /\ Len(job_heap) >= n)
        ~> (Len(job_heap) >= n /\ job_heap[n].status = "completed")

\* the (sample, pipeline interface) pairs of the project
PifacePairs ==
    {<<s, src>> : s \in DOMAIN interfaces_by_sample, src \in ValidSources}
    \cap {pair \in Samples \X ValidSources :
             pair[1] \in DOMAIN interfaces_by_sample
             /\ pair[2] \in Range(interfaces_by_sample[pair[1]])}

\* the log of a pass over the samples that numbers them 1..N of N
NumberedPass ==
    [k \in 1 .. NumSamples |->
        [op |-> "show", text |-> <<k, NumSamples>>]]

\* the counter of a driver never passes its total
C35_Within ==
    command \in {"run", "runp", "clean", "destroy"}
    => (0 <= counter.count /\ counter.count <= counter.total)

\* Run: the total is the number of pairs, and no pair is shown twice
C35_Run ==
    (command = "run" /\ pc # "setup")
    => /\ counter.total = Cardinality(PifacePairs)
       /\ counter.count = Len(calls)
       /\ \A j \in 1 .. Len(calls) : \A k \in 1 .. Len(calls) :
             (calls[j].sample = calls[k].sample /\ calls[j].piface = calls[k].piface)
             => j = k

\* Collate: the total is the number of project-level interface sources
C35_Collate ==
    (command = "runp" /\ pc = "loop")
    => counter.total = Len(ProjectPifaces)

\* Clean, Destroy: a driver that made both passes numbered the samples 1..N
\* in each, with the reset between them
C35_CleanDestroy ==
    (command \in {"clean", "destroy"} /\ pc = "done" /\ passes = <<TRUE, FALSE>>)
    => counter_log = NumberedPass \o <<[op |-> "reset", text |-> <<>>]>> \o NumberedPass

\* C35: in Run, Collate, Clean and Destroy the counter keeps
\* 0 <= count <= total at every step; in Run the total is the number of
\* (sample, pipeline interface) pairs and show is called at most once per
\* pair; in Collate the total is the number of project-level interface
\* sources; in Clean and Destroy the counter is reset between the preview
\* pass and the execution pass, so that both passes number the samples 1..N.
C35_CounterWithinTotal ==
    C35_Within /\ C35_Run /\ C35_Collate /\ C35_CleanDestroy

\* a Destroy has made both passes and its counter stands at the total
C35_Witness ==
    /\ command = "destroy" /\ pc = "done"
    /\ passes = <<TRUE, FALSE>>
    /\ counter.count = NumSamples /\ counter.total = NumSamples

\* the samples of a finished Run that were taken up (not cut off by the
\* limit), have no recorded skip reason and are in no conductor's failed set
SucceededSamples ==
    {s \in Samples :
        /\ s <= upper_sample_bound
        /\ s \notin DOMAIN failures
        /\ \A p \in DOMAIN conductors : s \notin conductors[p].failed_samples}

\* C36: the "Successful samples" count of a finished Run is the number of
\* project samples with neither a recorded skip reason nor a failed job
\* submission; a sample of some conductor's failed set, or one cut off by the
\* limit, is not counted.
C36_SuccessfulCountsOnlySucceeded ==
    RunCompleted => report.successful = Cardinality(SucceededSamples)

\* the same count with the limit left aside: only failed submissions matter
C36_FailedSubmissionNotCounted ==
    (RunCompleted /\ upper_sample_bound = NumSamples)
    => report.successful = Cardinality(SucceededSamples)

\* the file lists of flag f in the log of a Check
ListsOfFlag(f) ==
    {k \in 1 .. Len(check_log) : check_log[k].kind = "files" /\ check_log[k].flag = f}

\* the count lines of flag f in the log of a Check
CountsOfFlag(f) ==
    {k \in 1 .. Len(check_log) : check_log[k].kind = "count" /\ check_log[k].flag = f}

\* C37: in one Check the file list of a flag is logged at most once, for one
\* requested flag or several and for every number of matching files; a flag
\* with no matching file gets a count line and no file list.
C37_FileListLoggedOnce ==
    (command = "check" /\ pc = "done")
    => \A f \in Range(check_flags) :
          /\ Cardinality(ListsOfFlag(f)) <= 1
          /\ Len(files_by_flag[f]) = 0
             => (Cardinality(CountsOfFlag(f)) = 1 /\ ListsOfFlag(f) = {})

\* the part of C37 on flags without files
C37_EmptyFlagHasCountOnly ==
    (command = "check" /\ pc = "done")
    => \A f \in Range(check_flags) :
          Len(files_by_flag[f]) = 0
          => (Cardinality(CountsOfFlag(f)) = 1 /\ ListsOfFlag(f) = {})

\* a step of the execution pass neither asks for confirmation nor re-invokes
\* the driver; a step of any pass starts at most the execution pass
C38_Step ==
    command \in {"clean", "destroy"}
    => /\ ~preview_flag => (asked' = asked /\ passes' = passes /\ ~preview_flag')
       /\ passes' # passes => (preview_flag /\ passes' = <<TRUE, FALSE>>)

\* Clean and Destroy make the preview pass, then at most the execution pass,
\* and ask at most once
C38_TwoPasses ==
    command \in {"clean", "destroy"}
    => /\ passes \in {<<TRUE>>, <<TRUE, FALSE>>}
       /\ preview_flag = (passes = <<TRUE>>)
       /\ asked <= 1
       /\ idx <= NumSamples + 1
       /\ (args.dry_run \/ answer = "no") => passes = <<TRUE>>
       /\ (args.force_yes \/ args.dry_run) => asked = 0

\* C38: every Clean or Destroy terminates after at most two passes over the
\* samples: the preview pass re-invokes the driver at most once, the execution
\* pass never asks for confirmation and never re-invokes the driver, whatever
\* dry_run, force_yes and the answer are.
C38_TerminatesInTwoPasses ==
    /\ [][C38_Step]_vars
    /\ []C38_TwoPasses
    /\ (command \in {"clean", "destroy"}) ~> (pc = "done")

\* a Clean that asked, was told yes, made the execution pass and returned
C38_Witness ==
    /\ command = "clean" /\ pc = "done" /\ ret = "0"
    /\ passes = <<TRUE, FALSE>>
    /\ asked = 1 /\ answer = "yes"
    /\ idx = NumSamples + 1

\* the source's file exists
FileExists(src) == src \in ValidSources

\* the number of project-level sources the Collate loop has taken up
CollateVisited ==
    IF ret = "JobSubmissionError" THEN idx ELSE idx - 1

\* the taken-up project-level sources whose file exists, in list order
CollateExisting ==
    SelectSeq(SubSeq(piface_lines, 1, CollateVisited), FileExists)

\* the iteration on a source without a file leaves conductors, counter and
\* submissions as they are and goes on to the next source
C39_Step ==
    (/\ command = "runp" /\ pc = "loop" /\ idx <= Len(piface_lines)
     /\ ~FileExists(piface_lines[idx]))
    => /\ conductors' = conductors /\ conductor_keys' = conductor_keys
       /\ counter' = counter /\ counter_log' = counter_log
       /\ submits' = submits /\ jobs' = jobs
       /\ idx' = idx + 1 /\ pc' = "loop"

\* the sources handed to a conductor and submitted are those taken up whose
\* file exists, each once and in list order; a Collate that returned has
\* taken up the whole list
C39_OthersSubmitted ==
    (command = "runp" /\ pc \in {"loop", "done"})
    => /\ conductor_keys = CollateExisting
       /\ Len(submits) = Len(CollateExisting)
       /\ \A k \in 1 .. Len(submits) : submits[k].piface = CollateExisting[k]
       /\ counter.count = Len(CollateExisting)
       /\ Len(counter_log) = Len(CollateExisting)
       /\ (pc = "done" /\ ret = "None") => CollateVisited = Len(piface_lines)

\* C39: in Collate a project-level pipeline interface source whose file does
\* not exist is passed over, with no conductor created and the progress
\* counter not advanced, and every other source of the list, before and after
\* it, is still handed to a conductor and submitted.
C39_MissingSourceSkipped ==
    [][C39_Step]_vars /\ []C39_OthersSubmitted

\* a Collate over a list with a missing file between two sources that load
\* has returned, with both of them submitted and the counter at 2 of 3
C39_Witness ==
    /\ command = "runp" /\ pc = "done" /\ ret = "None"
    /\ piface_lines = <<"p1", "bad", "p2">>
    /\ conductor_keys = <<"p1", "p2">>
    /\ Len(submits) = 2
    /\ counter = [count |-> 2, total |-> 3]

=========================================================================
